---------------------------- MODULE Spec2Model ----------------------------
(***************************************************************************)
(* A model of qtplot's gridding / transform engine (src/qtplot/data.py):   *)
(* DatFile.get_data pivots the records of a scan file into a Data2D, and   *)
(* the Data2D methods transform it in place.                               *)
(*                                                                         *)
(* Numbers.  A float is modelled as an exact extended rational <<n, d>>    *)
(* with d >= 0 in lowest terms: <<n, d>> with d > 0 is n/d, <<1, 0>> is    *)
(* +inf, <<-1, 0>> is -inf and <<0, 0>> is NaN.  Arithmetic follows IEEE   *)
(* 754 on these values (x/0 = +-inf, 0/0 = NaN, inf - inf = NaN, every     *)
(* comparison with NaN is false); rounding is not modelled.                *)
(*                                                                         *)
(* Arrays.  A 2-d numpy array is [nr, nc, a] with a[i][j], i in 1..nr,     *)
(* j in 1..nc; numpy's index k is the model's index k + 1.                 *)
(***************************************************************************)
EXTENDS Integers, Sequences, FiniteSets, TLC

VARIABLES dat, d2, pre, last, nops

vars == <<dat, d2, pre, last, nops>>

(***************************************************************************)
(* Bounds of the model.                                                    *)
(***************************************************************************)
MaxRecords == 3

MaxNx == 3

MaxNy == 2

MaxOps == 3

MaxCrop == 2

(***************************************************************************)
(* Extended rational arithmetic (numpy float64 without rounding).          *)
(***************************************************************************)
NaN == <<0, 0>>

PInf == <<1, 0>>

NInf == <<-1, 0>>

R(n) == <<n, 1>>

AbsInt(n) == IF n < 0 THEN -n ELSE n

SignInt(n) == IF n < 0 THEN -1 ELSE IF n > 0 THEN 1 ELSE 0

RECURSIVE Gcd(_, _)
Gcd(a, b) == IF b = 0 THEN a ELSE Gcd(b, a % b)

Norm(n, d) ==
    IF d = 0 THEN <<SignInt(n), 0>>
    ELSE LET g == Gcd(AbsInt(n), AbsInt(d))
             s == IF d < 0 THEN -1 ELSE 1
         IN  <<(s * n) \div g, (s * d) \div g>>

IsNaN(a) == a = NaN

IsFinite(a) == a[2] > 0

RNeg(a) == <<-a[1], a[2]>>

RAdd(a, b) ==
    IF IsNaN(a) \/ IsNaN(b) THEN NaN
    ELSE IF a[2] = 0 /\ b[2] = 0 THEN (IF a = b THEN a ELSE NaN)
    ELSE IF a[2] = 0 THEN a
    ELSE IF b[2] = 0 THEN b
    ELSE Norm(a[1] * (b[2] \div Gcd(a[2], b[2])) + b[1] * (a[2] \div Gcd(a[2], b[2])),
              a[2] * (b[2] \div Gcd(a[2], b[2])))

RSub(a, b) == RAdd(a, RNeg(b))

\* a * b with g = gcd(a[1], b[2]) and h = gcd(b[1], a[2]) taken out first.
Reduced(a, b, g, h) ==
    Norm((a[1] \div g) * (b[1] \div h), (a[2] \div h) * (b[2] \div g))

RMul(a, b) ==
    IF a[1] = 0 \/ b[1] = 0 \/ a[2] = 0 \/ b[2] = 0 THEN Norm(a[1] * b[1], a[2] * b[2])
    ELSE Reduced(a, b, Gcd(AbsInt(a[1]), b[2]), Gcd(AbsInt(b[1]), a[2]))

RInv(a) == IF a[1] < 0 THEN Norm(-a[2], -a[1]) ELSE Norm(a[2], a[1])

RDiv(a, b) == RMul(a, RInv(b))

RAbs(a) == <<AbsInt(a[1]), a[2]>>

RLess(a, b) ==
    /\ ~IsNaN(a)
    /\ ~IsNaN(b)
    /\ IF a[2] = 0 /\ b[2] = 0 THEN a[1] < b[1]
       ELSE a[1] * b[2] < b[1] * a[2]

RLeq(a, b) == ~IsNaN(a) /\ ~IsNaN(b) /\ ~RLess(b, a)

RGreater(a, b) == RLess(b, a)

(***************************************************************************)
(* numpy reductions over a 1-d array (a sequence of numbers).              *)
(***************************************************************************)
\* The integer part of log10(n/d) for n, d > 0.
RECURSIVE Characteristic(_, _)
Characteristic(n, d) ==
    IF n >= 10 * d THEN Characteristic(n, 10 * d) + 1
    ELSE IF n < d THEN Characteristic(10 * n, d) - 1
    ELSE 0

RECURSIVE SeqSum(_, _)
SeqSum(s, k) == IF k > Len(s) THEN R(0) ELSE RAdd(s[k], SeqSum(s, k + 1))

\* np.average / np.mean: the mean of an empty array is NaN.
Average(s) == RDiv(SeqSum(s, 1), R(Len(s)))

NotNaNs(s) == SelectSeq(s, LAMBDA v : ~IsNaN(v))

\* np.isnan(s).any()
AnyNaN(s) == \E k \in 1..Len(s) : IsNaN(s[k])

\* np.nanmean: the mean of the non-NaN entries, NaN when there is none.
NanMean(s) == Average(NotNaNs(s))

RECURSIVE SeqMin(_, _, _)
SeqMin(s, k, m) ==
    IF k > Len(s) THEN m
    ELSE SeqMin(s, k + 1, IF RLess(s[k], m) THEN s[k] ELSE m)

RECURSIVE SeqMax(_, _, _)
SeqMax(s, k, m) ==
    IF k > Len(s) THEN m
    ELSE SeqMax(s, k + 1, IF RLess(m, s[k]) THEN s[k] ELSE m)

\* np.nanmin / np.nanmax: NaN entries are skipped; an all-NaN slice gives NaN
\* (with a RuntimeWarning).  An empty array raises and is guarded by callers.
NanMin(s) == LET t == NotNaNs(s) IN IF Len(t) = 0 THEN NaN ELSE SeqMin(t, 2, t[1])

NanMax(s) == LET t == NotNaNs(s) IN IF Len(t) = 0 THEN NaN ELSE SeqMax(t, 2, t[1])

(***************************************************************************)
(* 2-d arrays.                                                             *)
(***************************************************************************)
Mat(nr, nc, F(_, _)) ==
    [nr |-> nr, nc |-> nc, a |-> [i \in 1..nr |-> [j \in 1..nc |-> F(i, j)]]]

Shape(m) == <<m.nr, m.nc>>

Size(m) == m.nr * m.nc

\* m.T
Transpose(m) == Mat(m.nc, m.nr, LAMBDA i, j : m.a[j][i])

\* m.ravel(): row-major order.
Ravel(m) ==
    [k \in 1..(m.nr * m.nc) |-> m.a[((k - 1) \div m.nc) + 1][((k - 1) % m.nc) + 1]]

\* m[:, j] and m[i, :] as 1-d arrays.
Column(m, j) == [i \in 1..m.nr |-> m.a[i][j]]

Row(m, i) == [j \in 1..m.nc |-> m.a[i][j]]

\* np.fliplr / np.flipud
FlipLR(m) == Mat(m.nr, m.nc, LAMBDA i, j : m.a[i][m.nc + 1 - j])

FlipUD(m) == Mat(m.nr, m.nc, LAMBDA i, j : m.a[m.nr + 1 - i][j])

\* np.diff(m, axis=1) and np.diff(m, axis=0); a single column/row gives an
\* empty array.
DiffAxis1(m) ==
    Mat(m.nr, IF m.nc = 0 THEN 0 ELSE m.nc - 1,
        LAMBDA i, j : RSub(m.a[i][j + 1], m.a[i][j]))

DiffAxis0(m) ==
    Mat(IF m.nr = 0 THEN 0 ELSE m.nr - 1, m.nc,
        LAMBDA i, j : RSub(m.a[i + 1][j], m.a[i][j]))

None == [cls |-> "None"]


(***************************************************************************)
(* Scan files.  A QTLab .dat file declares its columns in a header (a      *)
(* "name" line and, for coordinate columns, a "size" line) followed by one *)
(* row of numbers per measurement record.  A file is modelled as           *)
(* [cols, rows]: cols[i] = [name, size] with size 0 for a column that has  *)
(* no size line, rows[k][i] the value of column i in record k.  The files  *)
(* have three coordinate columns a, b, c and one value column v.           *)
(***************************************************************************)
Header(sa, sb, sc) ==
    << [name |-> "a", size |-> sa], [name |-> "b", size |-> sb],
       [name |-> "c", size |-> sc], [name |-> "v", size |-> 0] >>

SetpointVals == 0..1

\* The measured value of record k (0-based) of a file, two shapes of surface.
ScanValue(p, k) == IF p = 1 THEN k + 1 ELSE (k * k) % 3

\* Records in any order, with repeated and missing setpoint pairs.
GenericSetpoints ==
    UNION { [1..n -> SetpointVals \X SetpointVals] : n \in 1..MaxRecords }

GenericRows(sp, p) ==
    [k \in 1..Len(sp) |->
        <<R(sp[k][1]), R(sp[k][2]), R(0), R(ScanValue(p, k - 1))>>]

GenericFiles ==
    { [cols |-> Header(sa, sb, sc), rows |-> GenericRows(sp, p)] :
        sa \in {1, 2}, sb \in {1, 2}, sc \in {1, 2},
        sp \in GenericSetpoints, p \in {1, 2} }

\* A raster scan of nx by ny setpoints, a swept fastest, stopped after n
\* records (n < nx * ny: the scan terminated mid-way).
ScanRows(nx, ny, n, p) ==
    [k \in 1..n |->
        <<R((k - 1) % nx), R((k - 1) \div nx), R(0), R(ScanValue(p, k - 1))>>]

ScanFiles ==
    { [cols |-> Header(nx, ny, 1), rows |-> ScanRows(nx, ny, n, p)] :
        <<nx, ny, n, p>> \in
            { t \in (1..MaxNx) \X (1..MaxNy) \X (1..(MaxNx * MaxNy)) \X {1, 2} :
                t[3] <= t[1] * t[2] } }

(***************************************************************************)
(* DatFile                                                                 *)
(***************************************************************************)
\* A DatFile that keeps every column with a size line as a swept column.
DatFileEverySize(file) ==
    LET sized == SelectSeq(file.cols, LAMBDA c : c.size > 0)
    IN  [ ids   |-> [i \in 1..Len(file.cols) |-> file.cols[i].name],
          sizes |-> [i \in 1..Len(sized) |-> sized[i].name],
          shape |-> [i \in 1..Len(sized) |-> sized[i].size],
          ndim  |-> Len(sized),
          data  |-> file.rows ]

\* DatFile.__init__, QTLab branch: ids and labels from the name lines, sizes
\* keeps the columns whose size line is > 1 (in header order), shape collects
\* every size line and ndim counts its entries > 1.
DatFile(file) ==
    LET sized == SelectSeq(file.cols, LAMBDA c : c.size > 0)
        swept == SelectSeq(file.cols, LAMBDA c : c.size > 1)
    IN  [ ids   |-> [i \in 1..Len(file.cols) |-> file.cols[i].name],
          sizes |-> [i \in 1..Len(swept) |-> swept[i].name],
          shape |-> [i \in 1..Len(sized) |-> sized[i].size],
          ndim  |-> Len(swept),
          data  |-> file.rows ]

IndexOf(seq, v) == CHOOSE i \in 1..Len(seq) : seq[i] = v

InSeq(seq, v) == \E i \in 1..Len(seq) : seq[i] = v

HasColumn(df, name) == InSeq(df.ids, name)

\* DatFile.get_column: the column of that name, None when there is none.
get_column(df, name) ==
    IF HasColumn(df, name)
    THEN [k \in 1..Len(df.data) |-> df.data[k][IndexOf(df.ids, name)]]
    ELSE None

\* np.zeros(n)
Zeros(n) == [k \in 1..n |-> R(0)]

\* np.unique(values, return_inverse=True): the sorted distinct values, and for
\* every entry its (1-based) position among them.
RECURSIVE SortSet(_)
SortSet(S) ==
    IF S = {} THEN << >>
    ELSE LET m == CHOOSE v \in S : \A w \in S : RLeq(v, w)
         IN  <<m>> \o SortSet(S \ {m})

\* The distinct values in descending order.
RECURSIVE SortSetDescending(_)
SortSetDescending(S) ==
    IF S = {} THEN << >>
    ELSE LET m == CHOOSE v \in S : \A w \in S : RLeq(w, v)
         IN  <<m>> \o SortSetDescending(S \ {m})

UniqueDescending(values) == SortSetDescending({ values[k] : k \in 1..Len(values) })

Unique(values) == SortSet({ values[k] : k \in 1..Len(values) })

UniqueInverse(values) ==
    LET u == Unique(values) IN [k \in 1..Len(values) |-> IndexOf(u, values[k])]

(***************************************************************************)
(* Data2D.__init__                                                         *)
(***************************************************************************)
\* row_range = |nanmax(x, axis=0) - nanmin(x, axis=0)|: one entry per column,
\* the spread of the values inside that column.
row_range(x) ==
    [j \in 1..x.nc |-> RAbs(RSub(NanMax(Column(x, j)), NanMin(Column(x, j))))]

\* col_range = |nanmax(x, axis=1) - nanmin(x, axis=1)|: one entry per row,
\* the spread of the values inside that row.
col_range(x) ==
    [i \in 1..x.nr |-> RAbs(RSub(NanMax(Row(x, i)), NanMin(Row(x, i))))]

\* A constructor that keeps the orientation of the pivot.
NeverTranspose(x) == FALSE

\* The test of Data2D.__init__ that decides the transposition.
NeedsTranspose(x) == RGreater(Average(row_range(x)), Average(col_range(x)))

\* tile(min + arange(n) * step) along the rows (the idealized x axis) and
\* along the columns (the idealized y axis).
EvenX(x) ==
    LET minx  == NanMin(Ravel(x))
        diffx == NanMean(Ravel(DiffAxis1(x)))
    IN  Mat(x.nr, x.nc, LAMBDA i, j : RAdd(minx, RMul(R(j - 1), diffx)))

EvenY(y) ==
    LET miny  == NanMin(Ravel(y))
        diffy == NanMean(Ravel(DiffAxis0(y)))
    IN  Mat(y.nr, y.nc, LAMBDA i, j : RAdd(miny, RMul(R(i - 1), diffy)))

\* Data2D(x, y, z, x_setpoints, y_setpoints, row_numbers, ..., equidistant,
\* varying) for non-empty x.  names = <<x_name, y_name, z_name,
\* x_setpoints_name, y_setpoints_name>>.  The attributes x_means / y_means
\* (recomputed by every method that reads them) are not kept.
Data2D(x, y, z, x_setpoints, y_setpoints, row_numbers, names, equidistant, varying) ==
    LET t  == NeedsTranspose(x)
        xs == IF t THEN Transpose(x_setpoints) ELSE x_setpoints
        ys == IF t THEN Transpose(y_setpoints) ELSE y_setpoints
        x1 == IF t THEN Transpose(x) ELSE x
        y1 == IF t THEN Transpose(y) ELSE y
        z1 == IF t THEN Transpose(z) ELSE z
        rn == IF t THEN Transpose(row_numbers) ELSE row_numbers
        v  == varying[1] \/ varying[2]
    IN  [ cls              |-> "Data2D",
          x                |-> IF v THEN EvenX(x1) ELSE x1,
          y                |-> IF v THEN EvenY(y1) ELSE y1,
          z                |-> z1,
          x_setpoints      |-> xs,
          y_setpoints      |-> ys,
          row_numbers      |-> rn,
          x_name           |-> names[1],
          y_name           |-> names[2],
          z_name           |-> names[3],
          x_setpoints_name |-> names[4],
          y_setpoints_name |-> names[5],
          equidistant      |-> equidistant,
          varying          |-> varying,
          tri              |-> None,
          no_nan_values    |-> << >> ]

(***************************************************************************)
(* DatFile.get_data                                                        *)
(***************************************************************************)
\* pivot[row_ind, col_ind] = data: the records are written into their cells
\* one after the other in file order, so a cell written twice keeps the later
\* record.  owner[i][j] is the (1-based) record whose values the cell holds,
\* 0 for a cell no record addressed (left NaN).
RECURSIVE Scatter(_, _, _, _)
Scatter(owner, row_ind, col_ind, k) ==
    IF k > Len(row_ind) THEN owner
    ELSE Scatter([owner EXCEPT ![row_ind[k]][col_ind[k]] = k],
                 row_ind, col_ind, k + 1)

\* A scatter in which the first record of a cell keeps it.
RECURSIVE ScatterFirst(_, _, _, _)
ScatterFirst(owner, row_ind, col_ind, k) ==
    IF k > Len(row_ind) THEN owner
    ELSE ScatterFirst(IF owner[row_ind[k]][col_ind[k]] = 0
                      THEN [owner EXCEPT ![row_ind[k]][col_ind[k]] = k]
                      ELSE owner,
                      row_ind, col_ind, k + 1)

PivotOwnerFirst(nrows, ncols, row_ind, col_ind) ==
    ScatterFirst([i \in 1..nrows |-> [j \in 1..ncols |-> 0]], row_ind, col_ind, 1)

PivotOwner(nrows, ncols, row_ind, col_ind) ==
    Scatter([i \in 1..nrows |-> [j \in 1..ncols |-> 0]], row_ind, col_ind, 1)

\* One plane pivot[:, :, p] of the pivoted array.
PivotPlane(owner, nrows, ncols, values) ==
    Mat(nrows, ncols,
        LAMBDA i, j : IF owner[i][j] = 0 THEN NaN ELSE values[owner[i][j]])

\* A get_data that takes the last two swept columns when there are more.
SetpointColumnsLastTwo(df) ==
    IF Len(df.sizes) = 1 THEN Append(df.sizes, "")
    ELSE IF Len(df.sizes) > 2 THEN SubSeq(df.sizes, Len(df.sizes) - 1, Len(df.sizes))
    ELSE df.sizes

\* The setpoint columns get_data uses: the keys of sizes, padded with '' when
\* there is exactly one.
SetpointColumns(df) ==
    IF Len(df.sizes) = 1 THEN Append(df.sizes, "") ELSE df.sizes

\* The y parameter after the 1-d check.
EffectiveY(df, y_name) == IF y_name # "" /\ df.ndim < 2 THEN "" ELSE y_name

\* Whether the second setpoint column and the y column are read.
UsesY(df, y_name) ==
    Len(SetpointColumns(df)) > 1 /\ EffectiveY(df, y_name) # ""

XSetpoints(df) == get_column(df, SetpointColumns(df)[1])

\* A get_data whose synthesized second setpoint axis is the record index.
YSetpointsByRecord(df, y_name) ==
    IF UsesY(df, y_name) THEN get_column(df, SetpointColumns(df)[2])
    ELSE [k \in 1..Len(df.data) |-> R(k - 1)]

YSetpoints(df, y_name) ==
    IF UsesY(df, y_name) THEN get_column(df, SetpointColumns(df)[2])
    ELSE Zeros(Len(df.data))

YData(df, y_name) ==
    IF UsesY(df, y_name) THEN get_column(df, EffectiveY(df, y_name))
    ELSE Zeros(Len(df.data))

\* A get_data without the test of x_name.
XParameterNeverMissing(x_name) == FALSE

\* if x_name == '': the x parameter is not selected.
XParameterMissing(x_name) == x_name = ""

\* The messages get_data logs.
GetDataLog(df, x_name, y_name) ==
    IF x_name = "" THEN <<"error: no x parameter">>
    ELSE (IF y_name # "" /\ df.ndim < 2 THEN <<"warning: y ignored, 1D">> ELSE << >>)
         \o (IF Len(df.sizes) = 0 THEN <<"error: no setpoint columns">>
             ELSE IF Len(df.sizes) > 2 THEN <<"warning: using the first two">>
             ELSE << >>)

\* get_data(x_name, y_name, z_name): [ret |-> "None"] for the two logged
\* errors, [ret |-> "raise"] when a selected column does not exist (numpy
\* raises on the None that get_column returned), else the Data2D.
get_data(df, x_name, y_name, z_name) ==
    IF XParameterMissing(x_name) THEN [ret |-> "None", log |-> GetDataLog(df, x_name, y_name)]
    ELSE IF Len(df.sizes) = 0
    THEN [ret |-> "None", log |-> GetDataLog(df, x_name, y_name)]
    ELSE
    LET n      == Len(df.data)
        xs     == XSetpoints(df)
        ys     == YSetpoints(df, y_name)
        xd     == get_column(df, x_name)
        yd     == YData(df, y_name)
        zd     == get_column(df, z_name)
    IN  IF \/ ~HasColumn(df, x_name)
           \/ ~HasColumn(df, z_name)
           \/ UsesY(df, y_name) /\ ~HasColumn(df, SetpointColumns(df)[2])
           \/ UsesY(df, y_name) /\ ~HasColumn(df, EffectiveY(df, y_name))
        THEN [ret |-> "raise", log |-> GetDataLog(df, x_name, y_name)]
        ELSE
        LET cols    == Unique(xs)
            col_ind == UniqueInverse(xs)
            rows    == Unique(ys)
            row_ind == UniqueInverse(ys)
            nr      == Len(rows)
            nc      == Len(cols)
            owner   == PivotOwner(nr, nc, row_ind, col_ind)
            rnum    == [k \in 1..n |-> R(k - 1)]
        IN  [ ret |-> "Data2D",
              log |-> GetDataLog(df, x_name, y_name),
              val |-> Data2D(PivotPlane(owner, nr, nc, xd),
                             PivotPlane(owner, nr, nc, yd),
                             PivotPlane(owner, nr, nc, zd),
                             PivotPlane(owner, nr, nc, xs),
                             PivotPlane(owner, nr, nc, ys),
                             PivotPlane(owner, nr, nc, rnum),
                             <<x_name, EffectiveY(df, y_name), z_name,
                               SetpointColumns(df)[1], SetpointColumns(df)[2]>>,
                             <<FALSE, FALSE>>, <<FALSE, FALSE>>) ]

(***************************************************************************)
(* Data2D methods.  A method is an operator from the object d to          *)
(* [out, d, res]: how the call ended ("ok" or "raise"), the object after   *)
(* the call (what was assigned before an exception stays assigned) and the *)
(* value returned.                                                         *)
(***************************************************************************)
Ret(out, d, res) == [out |-> out, d |-> d, res |-> res]

MaxInt(a, b) == IF a > b THEN a ELSE b

MinInt(a, b) == IF a < b THEN a ELSE b

IsEmpty(m) == m.nr = 0 \/ m.nc = 0

\* a == b on floats: false when either side is NaN.
REq(a, b) == ~IsNaN(a) /\ a = b

\* m[r0:r1, c0:c1] for r0, r1, c0, c1 >= 0 as Python slices it: bounds past
\* the end are clipped, never an error.
PySlice(m, r0, r1, c0, c1) ==
    LET nr == MaxInt(0, MinInt(r1, m.nr) - MinInt(r0, m.nr))
        nc == MaxInt(0, MinInt(c1, m.nc) - MinInt(c0, m.nc))
    IN  Mat(nr, nc, LAMBDA i, j : m.a[r0 + i][c0 + j])

\* m[indices] for a sequence of 0-based row indices inside m.
TakeRows(m, indices) ==
    Mat(Len(indices), m.nc, LAMBDA i, j : m.a[indices[i] + 1][j])

\* m + c, m * c and the elementwise a / b of equally shaped arrays.
MatAddScalar(m, c) == Mat(m.nr, m.nc, LAMBDA i, j : RAdd(m.a[i][j], c))

MatMulScalar(m, c) == Mat(m.nr, m.nc, LAMBDA i, j : RMul(m.a[i][j], c))

MatDiv(a, b) == Mat(a.nr, a.nc, LAMBDA i, j : RDiv(a.a[i][j], b.a[i][j]))

\* X, Y and Z have one shape: what every transform below relies on when it
\* combines them elementwise.
SameShapeXYZ(d) == Shape(d.x) = Shape(d.z) /\ Shape(d.y) = Shape(d.z)

\* Data2D.set_data
set_data(d, x, y, z) == [d EXCEPT !.x = x, !.y = y, !.z = z]

\* Data2D.get_limits: nanmin / nanmax raise on an empty array.
get_limits_raises(d) == IsEmpty(d.x) \/ IsEmpty(d.y) \/ IsEmpty(d.z)

\* The limits of an axis: -1, 1 when its minimum equals its maximum.
AxisLimits(lo, hi) == IF REq(lo, hi) THEN <<R(-1), R(1)>> ELSE <<lo, hi>>

Limits(xl, yl, zmin, zmax) ==
    [ xmin |-> xl[1], xmax |-> xl[2], ymin |-> yl[1], ymax |-> yl[2],
      zmin |-> zmin, zmax |-> zmax ]

get_limits(d) ==
    Limits(AxisLimits(NanMin(Ravel(d.x)), NanMax(Ravel(d.x))),
           AxisLimits(NanMin(Ravel(d.y)), NanMax(Ravel(d.y))),
           NanMin(Ravel(d.z)), NanMax(Ravel(d.z)))

\* Data2D.flip_axes / Data2D.flip
flip_axes(d, x_flip, y_flip) ==
    LET d1 == IF x_flip
              THEN [d EXCEPT !.x = FlipLR(d.x), !.y = FlipLR(d.y),
                             !.z = FlipLR(d.z),
                             !.row_numbers = FlipLR(d.row_numbers)]
              ELSE d
    IN  IF y_flip
        THEN [d1 EXCEPT !.x = FlipUD(d1.x), !.y = FlipUD(d1.y),
                        !.z = FlipUD(d1.z),
                        !.row_numbers = FlipUD(d1.row_numbers)]
        ELSE d1

\* Data2D.is_flipped, for non-empty X and Y: a comparison with NaN is false.
is_flipped(d) ==
    << RGreater(d.x.a[1][1], d.x.a[1][d.x.nc]), RGreater(d.y.a[1][1], d.y.a[d.y.nr][1]) >>

FlipBy(d, flags) == flip_axes(d, flags[1], flags[2])

\* Data2D.autoflip: is_flipped reads [0,0], IndexError on an array without
\* rows or columns.
autoflip(d) ==
    IF IsEmpty(d.x) \/ IsEmpty(d.y) THEN Ret("raise", d, "IndexError")
    ELSE Ret("ok", FlipBy(d, is_flipped(d)), << >>)

\* The bounds of crop after a negative right / top is counted from the end.
CropRight(d, right) == IF right < 0 THEN d.z.nc + right + 1 ELSE right

CropTop(d, top) == IF top < 0 THEN d.z.nr + top + 1 ELSE top

\* A crop that checks the range of its bounds but not their order.
CropBoundsUnordered(d, left, right, bottom, top) ==
    /\ 0 <= left /\ left <= d.z.nc
    /\ 0 <= right /\ right <= d.z.nc
    /\ 0 <= bottom /\ bottom <= d.z.nr
    /\ 0 <= top /\ top <= d.z.nr

\* The condition under which crop slices (else it raises ValueError).
CropBoundsOk(d, left, right, bottom, top) ==
    /\ left < right
    /\ bottom < top
    /\ 0 <= left /\ left <= d.z.nc
    /\ 0 <= right /\ right <= d.z.nc
    /\ 0 <= bottom /\ bottom <= d.z.nr
    /\ 0 <= top /\ top <= d.z.nr

\* A crop that takes the row top and the column right as well.
crop_inclusive(d, left, right, bottom, top) ==
    IF CropBoundsOk(d, left, CropRight(d, right), bottom, CropTop(d, top))
    THEN Ret("ok",
             [d EXCEPT !.x = PySlice(d.x, bottom, CropTop(d, top) + 1, left,
                                     CropRight(d, right) + 1),
                       !.y = PySlice(d.y, bottom, CropTop(d, top) + 1, left,
                                     CropRight(d, right) + 1),
                       !.z = PySlice(d.z, bottom, CropTop(d, top) + 1, left,
                                     CropRight(d, right) + 1),
                       !.row_numbers = PySlice(d.row_numbers, bottom, CropTop(d, top) + 1,
                                               left, CropRight(d, right) + 1)],
             << >>)
    ELSE Ret("raise", d, "ValueError: Invalid crop parameters")

\* Data2D.crop(left, right, bottom, top)
crop(d, left, right, bottom, top) ==
    LET r == CropRight(d, right)
        t == CropTop(d, top)
    IN  IF CropBoundsOk(d, left, r, bottom, t)
        THEN Ret("ok",
                 [d EXCEPT !.x = PySlice(d.x, bottom, t, left, r),
                           !.y = PySlice(d.y, bottom, t, left, r),
                           !.z = PySlice(d.z, bottom, t, left, r),
                           !.row_numbers = PySlice(d.row_numbers, bottom, t, left, r)],
                 << >>)
        ELSE Ret("raise", d, "ValueError: Invalid crop parameters")

\* Data2D.even_odd(even): the rows 0, 2, 4, ... or 1, 3, 5, ... of Z's row
\* count; X, Y, Z are set before row_numbers is indexed, which raises
\* IndexError when row_numbers has fewer rows than the largest index.
EvenOddIndices(n, even) ==
    LET first == IF even THEN 0 ELSE 1
    IN  [k \in 1..((n - first + 1) \div 2) |-> first + 2 * (k - 1)]

even_odd(d, even) ==
    LET indices == EvenOddIndices(d.z.nr, even)
        d1 == set_data(d, TakeRows(d.x, indices), TakeRows(d.y, indices),
                       TakeRows(d.z, indices))
    IN  IF \E k \in 1..Len(indices) : indices[k] >= d.row_numbers.nr
        THEN Ret("raise", d1, "IndexError")
        ELSE Ret("ok", [d1 EXCEPT !.row_numbers = TakeRows(d.row_numbers, indices)],
                 << >>)

\* Data2D.offset_axes / Data2D.scale_axes
offset_axes(d, x_offset, y_offset) ==
    [d EXCEPT !.x = MatAddScalar(d.x, x_offset), !.y = MatAddScalar(d.y, y_offset)]

scale_axes(d, x_scale, y_scale) ==
    [d EXCEPT !.x = MatMulScalar(d.x, x_scale), !.y = MatMulScalar(d.y, y_scale)]

\* An xderiv that shortens X and Z and leaves Y as it is.
xderiv_keeping_y(d, method) ==
    [d EXCEPT !.x = PySlice(d.x, 0, d.x.nr, 0, MaxInt(d.x.nc - 1, 0)),
              !.z = MatDiv(DiffAxis1(d.z), DiffAxis1(d.x))]

\* Data2D.xderiv(method), for X, Y, Z of one shape.
xderiv(d, method) ==
    IF method = "midpoint"
    THEN LET dx    == DiffAxis1(d.x)
             ddata == DiffAxis1(d.z)
         IN  [d EXCEPT
                !.x = Mat(dx.nr, dx.nc,
                          LAMBDA i, j : RAdd(d.x.a[i][j], RDiv(dx.a[i][j], R(2)))),
                !.y = PySlice(d.y, 0, d.y.nr, 0, MaxInt(d.y.nc - 1, 0)),
                !.z = MatDiv(ddata, dx)]
    ELSE IF method = "2nd order central diff"
    THEN [d EXCEPT
            !.z = Mat(d.z.nr, MaxInt(d.z.nc - 2, 0),
                      LAMBDA i, j : RDiv(RSub(d.z.a[i][j + 2], d.z.a[i][j]),
                                         RSub(d.x.a[i][j + 2], d.x.a[i][j]))),
            !.x = PySlice(d.x, 0, d.x.nr, 1, MaxInt(d.x.nc - 1, 0)),
            !.y = PySlice(d.y, 0, d.y.nr, 1, MaxInt(d.y.nc - 1, 0))]
    ELSE d

\* Data2D.yderiv(method), for X, Y, Z of one shape.
yderiv(d, method) ==
    IF method = "midpoint"
    THEN LET dy    == DiffAxis0(d.y)
             ddata == DiffAxis0(d.z)
         IN  [d EXCEPT
                !.x = PySlice(d.x, 0, MaxInt(d.x.nr - 1, 0), 0, d.x.nc),
                !.y = Mat(dy.nr, dy.nc,
                          LAMBDA i, j : RAdd(d.y.a[i][j], RDiv(dy.a[i][j], R(2)))),
                !.z = MatDiv(ddata, dy)]
    ELSE IF method = "2nd order central diff"
    THEN [d EXCEPT
            !.z = Mat(MaxInt(d.z.nr - 2, 0), d.z.nc,
                      LAMBDA i, j : RDiv(RSub(d.z.a[i + 2][j], d.z.a[i][j]),
                                         RSub(d.y.a[i + 2][j], d.y.a[i][j]))),
            !.x = PySlice(d.x, 1, MaxInt(d.x.nr - 1, 0), 0, d.x.nc),
            !.y = PySlice(d.y, 1, MaxInt(d.y.nr - 1, 0), 0, d.y.nc)]
    ELSE d

(***************************************************************************)
(* copy, dderiv, gradmag.                                                  *)
(***************************************************************************)
\* Data2D.copy: a new Data2D built by the constructor from copies of the
\* arrays, with the names and flags of this one.  The constructor's
\* np.nanmax(x, axis=...) raises ValueError on an x without rows or columns.
copy(d) ==
    IF IsEmpty(d.x) THEN Ret("raise", d, "ValueError")
    ELSE Ret("ok",
             Data2D(d.x, d.y, d.z, d.x_setpoints, d.y_setpoints, d.row_numbers,
                    <<d.x_name, d.y_name, d.z_name, d.x_setpoints_name, d.y_setpoints_name>>,
                    d.equidistant, d.varying),
             << >>)

\* m[:-1,:] (midpoint) and m[1:-1,:] (2nd order); m[:,:-1] and m[:,1:-1].
TrimRows(m, method) ==
    PySlice(m, IF method = "midpoint" THEN 0 ELSE 1, MaxInt(m.nr - 1, 0), 0, m.nc)

TrimColumns(m, method) ==
    PySlice(m, 0, m.nr, IF method = "midpoint" THEN 0 ELSE 1, MaxInt(m.nc - 1, 0))

\* xvalues * xdir + yvalues * ydir, for equally shaped xvalues and yvalues.
Directional(xvalues, yvalues, dir) ==
    Mat(xvalues.nr, xvalues.nc,
        LAMBDA i, j : RAdd(RMul(xvalues.a[i][j], dir[1]), RMul(yvalues.a[i][j], dir[2])))

\* The integer part of the square root of a natural number.
ISqrt(n) == CHOOSE k \in 0..n : k * k <= n /\ n < (k + 1) * (k + 1)

\* np.sqrt of one float that is not negative: exact for the square of a
\* rational; any other root is irrational and is kept as the integer part of
\* sqrt(n * d) plus one half, over d.
Sqrt(v) ==
    IF ~IsFinite(v) THEN v
    ELSE IF ISqrt(v[1] * v[2]) * ISqrt(v[1] * v[2]) = v[1] * v[2]
         THEN Norm(ISqrt(v[1] * v[2]), v[2])
         ELSE Norm(2 * ISqrt(v[1] * v[2]) + 1, 2 * v[2])

\* np.sqrt(xvalues**2 + yvalues**2)
Magnitude(xvalues, yvalues) ==
    Mat(xvalues.nr, xvalues.nc,
        LAMBDA i, j : Sqrt(RAdd(RMul(xvalues.a[i][j], xvalues.a[i][j]),
                                RMul(yvalues.a[i][j], yvalues.a[i][j]))))

IsDerivMethod(method) == method \in {"midpoint", "2nd order central diff"}

\* The set_data of dderiv with xcomp and ycomp, the two differentiated
\* copies.
DDerivOf(d, xcomp, ycomp, dir, method) ==
    set_data(d, TrimRows(xcomp.x, method), TrimColumns(ycomp.y, method),
             Directional(TrimRows(xcomp.z, method), TrimColumns(ycomp.z, method), dir))

GradMagOf(d, xcomp, ycomp, method) ==
    set_data(d, TrimRows(xcomp.x, method), TrimColumns(ycomp.y, method),
             Magnitude(TrimRows(xcomp.z, method), TrimColumns(ycomp.z, method)))

\* dderiv when self.copy() ended as c (both copies are equal).
DDerivAfter(d, c, dir, method) ==
    IF c.out = "raise" THEN Ret("raise", d, c.res)
    ELSE IF IsDerivMethod(method)
    THEN Ret("ok", DDerivOf(d, xderiv(c.d, method), yderiv(c.d, method), dir, method), << >>)
    ELSE Ret("ok", d, << >>)

GradMagAfter(d, c, method) ==
    IF c.out = "raise" THEN Ret("raise", d, c.res)
    ELSE IF IsDerivMethod(method)
    THEN Ret("ok", GradMagOf(d, xderiv(c.d, method), yderiv(c.d, method), method), << >>)
    ELSE Ret("ok", d, << >>)

\* Data2D.dderiv(theta, method), dir = <<np.cos(theta), np.sin(theta)>>.
dderiv(d, dir, method) == DDerivAfter(d, copy(d), dir, method)

\* Data2D.gradmag(method)
gradmag(d, method) == GradMagAfter(d, copy(d), method)

(***************************************************************************)
(* save (.dat) and the reading back of the file.                           *)
(***************************************************************************)
\* The number of digits after the point that the mantissa of r / d needs,
\* for 0 <= r < d: counted up to k, k + 1 when there are more.
RECURSIVE FractionDigits(_, _, _)
FractionDigits(r, d, k) ==
    IF r = 0 THEN 0
    ELSE IF k = 0 THEN 1
    ELSE FractionDigits((10 * r) % d, d, k - 1) + 1

\* n / d = (MantissaNum / MantissaDen) * 10^c with the quotient in [1, 10),
\* for n, d > 0 and c the integer part of log10(n / d).
MantissaNum(n, c) == IF c >= 0 THEN n ELSE n * (10 ^ (0 - c))

MantissaDen(d, c) == IF c >= 0 THEN d * (10 ^ c) ELSE d

\* The mantissa mn / md rounded to k digits after the point, times 10^c.
RoundedTo(mn, md, c, k) ==
    Norm(((2 * mn * (10 ^ k) + md) \div (2 * md)) * (10 ^ MaxInt(c, 0)),
         (10 ^ k) * (10 ^ MaxInt(0 - c, 0)))

\* A number written with float_format='%.12e' and read again: itself when
\* twelve digits after the point of the mantissa hold it; otherwise a rounded
\* neighbour (the model rounds at six digits, its integers being 32 bits
\* wide).
FormattedPositive(v, mn, md, c) ==
    IF FractionDigits(mn % md, md, 12) <= 12 THEN v ELSE RoundedTo(mn, md, c, 6)

FormattedMagnitude(v, c) ==
    FormattedPositive(v, MantissaNum(v[1], c), MantissaDen(v[2], c), c)

\* nan is written as the empty field and inf as 'inf', both read back as
\* they were.
Formatted(v) ==
    IF ~IsFinite(v) \/ v[1] = 0 THEN v
    ELSE IF v[1] > 0 THEN FormattedMagnitude(v, Characteristic(v[1], v[2]))
    ELSE RNeg(FormattedMagnitude(RNeg(v), Characteristic(0 - v[1], v[2])))

\* The header blocks: the two setpoint columns with a size line (the number
\* of columns of the setpoint matrix for both), then x, y, z without one
\* (size 0 stands for no size line).
SavedColumns(d) ==
    << [name |-> d.x_setpoints_name, size |-> d.x_setpoints.nc],
       [name |-> d.y_setpoints_name, size |-> d.y_setpoints.nc],
       [name |-> d.x_name, size |-> 0],
       [name |-> d.y_name, size |-> 0],
       [name |-> d.z_name, size |-> 0] >>

\* One line per cell: x setpoint, y setpoint, x, y, z.
SavedRows(xs, ys, x, y, z) ==
    [k \in 1..Len(x) |->
        <<Formatted(xs[k]), Formatted(ys[k]), Formatted(x[k]), Formatted(y[k]),
          Formatted(z[k])>>]

\* Data2D.save(filename) for a .dat filename, the setpoint matrices holding
\* rows: the file written.  np.vstack raises ValueError when the raveled
\* arrays differ in length.
save(d) ==
    IF \/ Size(d.y) # Size(d.x)
       \/ Size(d.z) # Size(d.x)
       \/ Size(d.y_setpoints) # Size(d.x)
       \/ Size(d.x_setpoints) # Size(d.x)
    THEN Ret("raise", d, "ValueError")
    ELSE Ret("ok", d,
             [cols |-> SavedColumns(d),
              rows |-> SavedRows(Ravel(d.x_setpoints), Ravel(d.y_setpoints),
                                 Ravel(d.x), Ravel(d.y), Ravel(d.z))])

\* DatFile(filename).get_data(x_name, y_name, z_name) on the file that save
\* ended with, under the names of the grid saved.
ReadBack(d, saved) ==
    IF saved.out = "raise" THEN saved
    ELSE Ret("ok", d, get_data(DatFile(saved.res), d.x_name, d.y_name, d.z_name))

(***************************************************************************)
(* The triangulation.  scipy.spatial.qhull.Delaunay is modelled by what it *)
(* computes: the triangles on the points whose circumcircle holds no other *)
(* point.  Where four or more points lie on one circle several such sets   *)
(* tile the hull and Qhull settles for one of them; the model takes the    *)
(* first in the lexicographic order of the vertex indices.  The geometry   *)
(* is done on integers: the normalized coordinates times their common      *)
(* denominator, a uniform scaling that changes no triangle.                *)
(***************************************************************************)
Lcm(a, b) == (a * b) \div Gcd(a, b)

RECURSIVE LcmOfDenominators(_, _)
LcmOfDenominators(pts, k) ==
    IF k > Len(pts) THEN 1
    ELSE Lcm(Lcm(pts[k][1][2], pts[k][2][2]), LcmOfDenominators(pts, k + 1))

IntPoints(pts) ==
    LET l == LcmOfDenominators(pts, 1)
    IN  [k \in 1..Len(pts) |->
            <<pts[k][1][1] * (l \div pts[k][1][2]), pts[k][2][1] * (l \div pts[k][2][2])>>]

\* Twice the signed area of the triangle p, q, r: > 0 when counterclockwise.
Orient(p, q, r) ==
    (q[1] - p[1]) * (r[2] - p[2]) - (q[2] - p[2]) * (r[1] - p[1])

\* > 0 when s lies strictly inside the circle through p, q, r.
InCircle(p, q, r, s) ==
    LET ax == p[1] - s[1]
        ay == p[2] - s[2]
        bx == q[1] - s[1]
        by == q[2] - s[2]
        cx == r[1] - s[1]
        cy == r[2] - s[2]
    IN  SignInt(Orient(p, q, r)) *
          ( (ax * ax + ay * ay) * (bx * cy - cx * by)
          - (bx * bx + by * by) * (ax * cy - cx * ay)
          + (cx * cx + cy * cy) * (ax * by - bx * ay) )

\* A triangle of the triangulation: not flat, no point inside its circle.
IsDelaunayTriangle(ip, t) ==
    /\ Orient(ip[t[1]], ip[t[2]], ip[t[3]]) # 0
    /\ \A l \in 1..Len(ip) : InCircle(ip[t[1]], ip[t[2]], ip[t[3]], ip[l]) <= 0

\* Some edge of triangle t has all of triangle u on its outer side.
SeparatedBy(ip, t, u) ==
    \E e \in {<<1, 2, 3>>, <<2, 3, 1>>, <<3, 1, 2>>} :
       LET side == SignInt(Orient(ip[t[e[1]]], ip[t[e[2]]], ip[t[e[3]]]))
       IN  \A v \in 1..3 : side * Orient(ip[t[e[1]]], ip[t[e[2]]], ip[u[v]]) <= 0

\* The interiors of the triangles t and u do not meet.
InteriorsDisjoint(ip, t, u) == SeparatedBy(ip, t, u) \/ SeparatedBy(ip, u, t)

\* The triples i < j < k of 1..n in lexicographic order.
Triples(n) ==
    SelectSeq([c \in 1..(n * n * n) |->
                  <<((c - 1) \div (n * n)) + 1, (((c - 1) \div n) % n) + 1, ((c - 1) % n) + 1>>],
              LAMBDA t : t[1] < t[2] /\ t[2] < t[3])

RECURSIVE PickSimplices(_, _, _, _)
PickSimplices(ip, cand, k, chosen) ==
    IF k > Len(cand) THEN chosen
    ELSE PickSimplices(ip, cand, k + 1,
            IF /\ IsDelaunayTriangle(ip, cand[k])
               /\ \A c \in 1..Len(chosen) : InteriorsDisjoint(ip, cand[k], chosen[c])
            THEN Append(chosen, cand[k])
            ELSE chosen)

PointsFinite(pts) ==
    \A k \in 1..Len(pts) : IsFinite(pts[k][1]) /\ IsFinite(pts[k][2])

\* Delaunay(points) raises (QhullError, or ValueError on a NaN) when it has no
\* triangle to build: fewer than three points, a coordinate that is not
\* finite, or all points on one line.
Delaunay_raises(pts) ==
    \/ Len(pts) < 3
    \/ ~PointsFinite(pts)
    \/ LET ip == IntPoints(pts)
       IN  \A i, j, k \in 1..Len(pts) : Orient(ip[i], ip[j], ip[k]) = 0

\* qhull.Delaunay(points): .points and .simplices (1-based point indices).
Delaunay(pts) ==
    [ cls       |-> "Delaunay",
      points    |-> pts,
      simplices |-> PickSimplices(IntPoints(pts), Triples(Len(pts)), 1, << >>) ]

\* Geometry on float coordinates, for the query points.
ROrient(p, q, r) ==
    RSub(RMul(RSub(q[1], p[1]), RSub(r[2], p[2])),
         RMul(RSub(q[2], p[2]), RSub(r[1], p[1])))

RSign(a) == IF RLess(a, R(0)) THEN -1 ELSE IF RLess(R(0), a) THEN 1 ELSE 0

\* The point p is on the inner side of the three edges of the triangle
\* a, b, c of orientation s.
InsideEdges(s, p, a, b, c) ==
    /\ s # 0
    /\ ~IsNaN(p[1]) /\ ~IsNaN(p[2])
    /\ s * RSign(ROrient(a, b, p)) >= 0
    /\ s * RSign(ROrient(b, c, p)) >= 0
    /\ s * RSign(ROrient(c, a, p)) >= 0

\* The point p lies in the closed triangle a, b, c (false for a NaN).
InTriangle(p, a, b, c) == InsideEdges(RSign(ROrient(a, b, c)), p, a, b, c)

\* tri.find_simplex(p): the (1-based) index of a simplex that contains p,
\* -1 when p is outside every simplex.
FirstOrMinusOne(hits) ==
    IF hits = {} THEN -1 ELSE CHOOSE s \in hits : \A u \in hits : s <= u

find_simplex(tri, p) ==
    FirstOrMinusOne({ s \in 1..Len(tri.simplices) :
                        InTriangle(p, tri.points[tri.simplices[s][1]],
                                      tri.points[tri.simplices[s][2]],
                                      tri.points[tri.simplices[s][3]]) })

\* np.take(array, index, axis=0) with the index find_simplex returned: a
\* negative index counts from the end, so -1 takes the last entry.
TakeIndex(n, index) == IF index < 0 THEN n + 1 + index ELSE index

\* The barycentric coordinates of p in the simplex a, b, c, as
\* tri.transform gives them: two from the affine map, the third as 1 - sum.
WithThird(l1, l2) == <<l1, l2, RSub(R(1), RAdd(l1, l2))>>

OverArea(n1, n2, area) == WithThird(RDiv(n1, area), RDiv(n2, area))

Barycentric(p, a, b, c) ==
    OverArea(ROrient(p, b, c), ROrient(a, p, c), ROrient(a, b, c))

\* (v - lo) / (hi - lo)
Normalize(v, lo, hi) == RDiv(RSub(v, lo), RSub(hi, lo))

\* zc[~nans]: the positions of the entries of zc that are not NaN.
NoNanIndices(zc) ==
    SelectSeq([k \in 1..Len(zc) |-> k], LAMBDA k : ~IsNaN(zc[k]))

\* v[~nans] for the raveled matrix v and the positions keep.
Masked(v, keep) == [k \in 1..Len(keep) |-> v[keep[k]]]

\* np.column_stack((xc, yc)) of the normalized coordinates.
NormalizedPoints(xc, yc, lim) ==
    [k \in 1..Len(xc) |->
        << Normalize(xc[k], lim.xmin, lim.xmax),
           Normalize(yc[k], lim.ymin, lim.ymax) >>]

\* self.tri = qhull.Delaunay(points)
Triangulate(d, pts) ==
    IF Delaunay_raises(pts)
    THEN Ret("raise", d, "QhullError")
    ELSE Ret("ok", [d EXCEPT !.tri = Delaunay(pts)], << >>)

\* generate_triangulation from self.no_nan_values = zc[~nans] on; keep is the
\* mask as positions.
TriangulateMasked(d, keep) ==
    IF get_limits_raises(d)
    THEN Ret("raise", [d EXCEPT !.no_nan_values = Masked(Ravel(d.z), keep)],
             "ValueError")
    ELSE Triangulate([d EXCEPT !.no_nan_values = Masked(Ravel(d.z), keep)],
                     NormalizedPoints(Masked(Ravel(d.x), keep),
                                      Masked(Ravel(d.y), keep), get_limits(d)))

\* Data2D.generate_triangulation.  The boolean mask of Z indexes the raveled
\* X and Y: IndexError when their sizes differ.  no_nan_values is assigned
\* before get_limits and Delaunay can raise.
generate_triangulation(d) ==
    IF Size(d.x) # Size(d.z) \/ Size(d.y) # Size(d.z)
    THEN Ret("raise", d, "IndexError")
    ELSE TriangulateMasked(d, NoNanIndices(Ravel(d.z)))

\* The weighted sum of the values at the vertices idx.
Weighted(values, idx, bary) ==
    RAdd(RAdd(RMul(values[idx[1]], bary[1]), RMul(values[idx[2]], bary[2])),
         RMul(values[idx[3]], bary[3]))

\* The value at the point p computed in the simplex of vertices idx.
InSimplex(d, idx, p) ==
    Weighted(d.no_nan_values, idx,
             Barycentric(p, d.tri.points[idx[1]], d.tri.points[idx[2]],
                         d.tri.points[idx[3]]))

\* The value interpolate computes for one normalized query point p.
InterpolateAt(d, p) ==
    InSimplex(d, d.tri.simplices[TakeIndex(Len(d.tri.simplices),
                                           find_simplex(d.tri, p))], p)

\* interpolate after the triangulation is there.
InterpolateOn(d, lim, points) ==
    Ret("ok", d,
        [k \in 1..Len(points) |->
            InterpolateAt(d, << Normalize(points[k][1], lim.xmin, lim.xmax),
                                Normalize(points[k][2], lim.ymin, lim.ymax) >>)])

\* interpolate after "if self.tri is None: self.generate_triangulation()"
\* ended as g.
InterpolateAfter(g, points) ==
    IF g.out = "raise" THEN g
    ELSE IF get_limits_raises(g.d) THEN Ret("raise", g.d, "ValueError")
    ELSE InterpolateOn(g.d, get_limits(g.d), points)

\* Data2D.interpolate(points): points is a sequence of <<x, y>>.  The
\* triangulation is generated only when self.tri is None.
interpolate(d, points) ==
    InterpolateAfter(IF d.tri = None THEN generate_triangulation(d)
                     ELSE Ret("ok", d, << >>),
                     points)

\* np.linspace(lo, hi, n)[k], k 0-based
Linspace(lo, hi, n, k) ==
    IF n = 1 THEN lo ELSE RAdd(lo, RMul(R(k), RDiv(RSub(hi, lo), R(n - 1))))

\* np.meshgrid(np.linspace(xmin, xmax, width), np.linspace(ymin, ymax, height))
MeshX(lim, width, height) ==
    Mat(height, width, LAMBDA i, j : Linspace(lim.xmin, lim.xmax, width, j - 1))

MeshY(lim, width, height) ==
    Mat(height, width, LAMBDA i, j : Linspace(lim.ymin, lim.ymax, height, i - 1))

\* np.column_stack((xv.flatten(), yv.flatten()))
ColumnStack(xf, yf) == [k \in 1..Len(xf) |-> <<xf[k], yf[k]>>]

\* self.z = np.reshape(values, xv.shape), when interpolate ended as r.
ReshapeInto(r, width, height) ==
    IF r.out = "raise" THEN r
    ELSE Ret("ok",
             [r.d EXCEPT !.z = Mat(height, width,
                                   LAMBDA i, j : r.res[(i - 1) * width + j])],
             << >>)

\* interp_grid from self.x, self.y = xv, yv on.
InterpGridOn(d, xv, yv, width, height) ==
    ReshapeInto(interpolate([d EXCEPT !.x = xv, !.y = yv],
                            ColumnStack(Ravel(xv), Ravel(yv))),
                width, height)

\* Data2D.interp_grid(width, height): X and Y are replaced by the uniform
\* grid before interpolate is called; Z is replaced after it returned.
interp_grid(d, width, height) ==
    IF get_limits_raises(d) THEN Ret("raise", d, "ValueError")
    ELSE InterpGridOn(d, MeshX(get_limits(d), width, height),
                      MeshY(get_limits(d), width, height), width, height)

(***************************************************************************)
(* create_kernel(x_dev, y_dev, cutoff, distr): the convolution kernel of   *)
(* lowpass and highpass, for x_dev, y_dev, cutoff > 0.                     *)
(***************************************************************************)
\* np.floor of a finite float, as an integer.
Floor(v) == v[1] \div v[2]

\* 1 + u + u^2/2, the start of the series of e^u, for u >= 0.
ExpSeries(u) == RAdd(R(1), RAdd(u, RDiv(RMul(u, u), R(2))))

\* np.exp of one float64: 1 at 0, +inf above 709 (e^710 is beyond the
\* largest float64), 0 below -745 (e^-746 is below the smallest one), NaN
\* for NaN.  Every other value is irrational and is kept as the start of
\* its series, or as the inverse of it for u < 0: positive and finite.
Exp(u) ==
    IF IsNaN(u) THEN NaN
    ELSE IF RLess(R(709), u) THEN PInf
    ELSE IF RLess(u, R(-745)) THEN R(0)
    ELSE IF RLess(u, R(0)) THEN RInv(ExpSeries(RNeg(u)))
    ELSE ExpSeries(u)

Families == {"gaussian", "exponential", "lorentzian", "thermal"}

\* thermal with e, the value of np.exp(r): e / (1 * (1 + e)**2)
Thermal(e) == RDiv(e, RMul(R(1), RMul(RAdd(R(1), e), RAdd(R(1), e))))

\* distributions[distr](r)
Distribution(distr, r) ==
    CASE distr = "gaussian"    -> Exp(RDiv(RNeg(RMul(r, r)), R(2)))
      [] distr = "exponential" -> Exp(RMul(RNeg(RAbs(r)), Sqrt(R(2))))
      [] distr = "lorentzian"  -> RDiv(R(1), RAdd(RMul(r, r), R(1)))
      [] distr = "thermal"     -> Thermal(Exp(r))

\* hx = np.floor((x_dev * cutoff) / 2.0)
HalfWidth(dev, cutoff) == Floor(RDiv(RMul(dev, cutoff), R(2)))

\* np.linspace(-h, h, h * 2 + 1) / dev, and np.zeros(1) when its size is 1.
KernelAxis(h, dev) ==
    [k \in 1..(2 * h + 1) |->
        IF h = 0 THEN R(0) ELSE RDiv(Linspace(R(0 - h), R(h), 2 * h + 1, k - 1), dev)]

\* func(np.sqrt(xv**2 + yv**2)) over xv, yv = np.meshgrid(x, y)
KernelValues(x, y, distr) ==
    Mat(Len(y), Len(x),
        LAMBDA i, j : Distribution(distr, Sqrt(RAdd(RMul(x[j], x[j]), RMul(y[i], y[i])))))

\* kernel /= total
DividedBy(kernel, total) ==
    Mat(kernel.nr, kernel.nc, LAMBDA i, j : RDiv(kernel.a[i][j], total))

\* kernel /= np.sum(kernel)
Normalized(kernel) == DividedBy(kernel, SeqSum(Ravel(kernel), 1))

create_kernel(x_dev, y_dev, cutoff, distr) ==
    IF distr \notin Families THEN Ret("raise", None, "KeyError")
    ELSE Ret("ok", None,
             Normalized(KernelValues(KernelAxis(HalfWidth(x_dev, cutoff), x_dev),
                                     KernelAxis(HalfWidth(y_dev, cutoff), y_dev), distr)))

(***************************************************************************)
(* Transforms of Z: log, offset, power, scale_data.                        *)
(***************************************************************************)
IsPowerOfTen(n, d, c) == IF c >= 0 THEN n = (10 ^ c) * d ELSE n * (10 ^ (0 - c)) = d

\* The logarithm of a positive number: the exponent for a power of ten; any
\* other logarithm is irrational and is kept as its integer part plus one
\* half (finite, between the same two integers).
Log10Positive(n, d, c) == IF IsPowerOfTen(n, d, c) THEN R(c) ELSE RAdd(R(c), <<1, 2>>)

\* np.log10 of one float: NaN for NaN and for a negative number, -inf for 0,
\* inf for inf.
Log10(v) ==
    IF IsNaN(v) \/ v[1] < 0 THEN NaN
    ELSE IF v[1] = 0 THEN NInf
    ELSE IF v[2] = 0 THEN PInf
    ELSE Log10Positive(v[1], v[2], Characteristic(v[1], v[2]))

MatLog10(z) == Mat(z.nr, z.nc, LAMBDA i, j : Log10(z.a[i][j]))

\* Data2D.log: np.nanmin raises ValueError on an array without entries.
log(d, subtract, min) ==
    IF IsEmpty(d.z) THEN Ret("raise", d, "ValueError")
    ELSE Ret("ok",
             [d EXCEPT !.z = MatLog10(IF subtract
                                      THEN MatAddScalar(d.z, RSub(min, NanMin(Ravel(d.z))))
                                      ELSE d.z)],
             << >>)

\* Data2D.offset
offset(d, by) == [d EXCEPT !.z = MatAddScalar(d.z, by)]

\* v ** n of floats for a natural number n: 1 for n = 0, whatever v is
\* (NaN ** 0 is 1).
RECURSIVE RPow(_, _)
RPow(v, n) == IF n = 0 THEN R(1) ELSE RMul(v, RPow(v, n - 1))

\* A power that is NaN wherever the base is.
power_keeping_nan(d, n) ==
    [d EXCEPT !.z = Mat(d.z.nr, d.z.nc,
                        LAMBDA i, j : IF IsNaN(d.z.a[i][j]) THEN NaN
                                      ELSE RPow(d.z.a[i][j], n))]

\* Data2D.power, for a natural number as the exponent.
power(d, n) == [d EXCEPT !.z = Mat(d.z.nr, d.z.nc, LAMBDA i, j : RPow(d.z.a[i][j], n))]

\* Data2D.scale_data
scale_data(d, factor) == [d EXCEPT !.z = MatMulScalar(d.z, factor)]

(***************************************************************************)
(* Line cuts and planes: get_row_at, get_column_at, sub_linecut_avg,       *)
(* sub_plane.                                                              *)
(***************************************************************************)
\* np.nanmean(m, axis=1) and np.nanmean(m, axis=0)
RowMeans(m) == [i \in 1..m.nr |-> NanMean(Row(m, i))]

ColumnMeans(m) == [j \in 1..m.nc |-> NanMean(Column(m, j))]

\* np.abs(means - v)
Distances(means, v) == [k \in 1..Len(means) |-> RAbs(RSub(means[k], v))]

\* np.argmin of a non-empty 1-d array, 0-based: the first NaN when there is
\* one, otherwise the first smallest entry.
ArgMin(s) ==
    IF AnyNaN(s)
    THEN (CHOOSE k \in 1..Len(s) : IsNaN(s[k]) /\ \A j \in 1..(k - 1) : ~IsNaN(s[j])) - 1
    ELSE (CHOOSE k \in 1..Len(s) :
              /\ \A j \in 1..Len(s) : RLeq(s[k], s[j])
              /\ \A j \in 1..(k - 1) : RLess(s[k], s[j])) - 1

\* The tuple get_row_at returns for the row of 0-based number index.
RowTuple(d, index) ==
    <<Row(d.x, index + 1), Row(d.z, index + 1), Row(d.row_numbers, index + 1), index>>

ColumnTuple(d, index) ==
    <<Column(d.y, index + 1), Column(d.z, index + 1), Column(d.row_numbers, index + 1), index>>

\* Data2D.get_row_at / Data2D.get_column_at: np.argmin raises ValueError on
\* an empty array.  (The means are also kept in self.y_means / self.x_means,
\* attributes nothing else reads.)
get_row_at(d, y) ==
    IF d.y.nr = 0 THEN Ret("raise", d, "ValueError")
    ELSE Ret("ok", d, RowTuple(d, ArgMin(Distances(RowMeans(d.y), y))))

get_column_at(d, x) ==
    IF d.x.nc = 0 THEN Ret("raise", d, "ValueError")
    ELSE Ret("ok", d, ColumnTuple(d, ArgMin(Distances(ColumnMeans(d.x), x))))

\* x, y, index = <the call r>: the value returned has to hold three items,
\* otherwise ValueError.  The statements of sub_linecut_avg after this
\* assignment are reached with three items only.
UnpackThree(r) ==
    IF r.out = "raise" THEN r
    ELSE IF Len(r.res) # 3 THEN Ret("raise", r.d, "ValueError")
    ELSE Ret("ok", r.d, r.res)

\* Data2D.sub_linecut_avg.  With a type other than the two, y is read before
\* any assignment: UnboundLocalError.
sub_linecut_avg(d, type, position, size) ==
    IF type = "horizontal" THEN UnpackThree(get_row_at(d, position))
    ELSE IF type = "vertical" THEN UnpackThree(get_column_at(d, position))
    ELSE Ret("raise", d, "UnboundLocalError")

MatSub(a, b) == Mat(a.nr, a.nc, LAMBDA i, j : RSub(a.a[i][j], b.a[i][j]))

\* x_slope*(self.x - (xmax - xmin)/2) + y_slope*(self.y - (ymax - ymin)/2)
Plane(x, y, x_slope, y_slope, l) ==
    Mat(x.nr, x.nc,
        LAMBDA i, j :
            RAdd(RMul(x_slope, RSub(x.a[i][j], RDiv(RSub(l.xmax, l.xmin), R(2)))),
                 RMul(y_slope, RSub(y.a[i][j], RDiv(RSub(l.ymax, l.ymin), R(2))))))

\* Data2D.sub_plane
sub_plane(d, x_slope, y_slope) ==
    IF get_limits_raises(d) THEN Ret("raise", d, "ValueError")
    ELSE Ret("ok",
             [d EXCEPT !.z = MatSub(d.z, Plane(d.x, d.y, x_slope, y_slope, get_limits(d)))],
             << >>)

(***************************************************************************)
(* The mesh: get_quadrilaterals / get_pcolor.                              *)
(***************************************************************************)
\* np.hstack((a, b)) and np.vstack((a, b)) of 2-d arrays.
HStack(a, b) ==
    Mat(a.nr, a.nc + b.nc,
        LAMBDA i, j : IF j <= a.nc THEN a.a[i][j] ELSE b.a[i][j - a.nc])

VStack(a, b) ==
    Mat(a.nr + b.nr, a.nc,
        LAMBDA i, j : IF i <= a.nr THEN a.a[i][j] ELSE b.a[i - a.nr][j])

\* m[:,[j]] as a column and m[i] as a row, 1-based.
ColOf(m, j) == Mat(m.nr, 1, LAMBDA i, k : m.a[i][j])

RowOf(m, i) == Mat(1, m.nc, LAMBDA k, j : m.a[i][j])

\* m with column j / row i replaced.
SetCol(m, j, c) ==
    Mat(m.nr, m.nc, LAMBDA i, k : IF k = j THEN c.a[i][1] ELSE m.a[i][k])

SetRow(m, i, r) ==
    Mat(m.nr, m.nc, LAMBDA k, j : IF k = i THEN r.a[1][j] ELSE m.a[k][j])

\* 2*a - b, elementwise.
Extrapolated(a, b) ==
    Mat(a.nr, a.nc, LAMBDA i, j : RSub(RMul(R(2), a.a[i][j]), b.a[i][j]))

\* t0[nans] = 2*t1[nans] - t2[nans] with nans = isnan(t0)
FillNaN(t0, t1, t2) ==
    Mat(t0.nr, t0.nc,
        LAMBDA i, j : IF IsNaN(t0.a[i][j])
                      THEN RSub(RMul(R(2), t1.a[i][j]), t2.a[i][j])
                      ELSE t0.a[i][j])

\* m[:,:-1] + np.diff(m, axis=1) / 2.0 and m[:-1,:] + np.diff(m, axis=0) / 2.0
MidColumns(m) ==
    Mat(m.nr, MaxInt(m.nc - 1, 0),
        LAMBDA i, j : RAdd(m.a[i][j], RDiv(RSub(m.a[i][j + 1], m.a[i][j]), R(2))))

MidRows(m) ==
    Mat(MaxInt(m.nr - 1, 0), m.nc,
        LAMBDA i, j : RAdd(m.a[i][j], RDiv(RSub(m.a[i + 1][j], m.a[i][j]), R(2))))

\* xc after the two in-place writes xc[:,[0]] = l0 and xc[:,[-1]] = r0 (more
\* than two columns): NaNs of the first and of the last column extrapolated
\* from their two neighbours.
FillLastColumn(xc) ==
    SetCol(xc, xc.nc,
           FillNaN(ColOf(xc, xc.nc), ColOf(xc, xc.nc - 1), ColOf(xc, xc.nc - 2)))

FillEdgeColumns(xc) ==
    IF xc.nc > 2
    THEN FillLastColumn(SetCol(xc, 1, FillNaN(ColOf(xc, 1), ColOf(xc, 2), ColOf(xc, 3))))
    ELSE xc

\* yc after t0[nans] = ... and b0[nans] = ...: t0 and b0 are views of the
\* first and of the last row, so the rows of yc are written (more than two
\* rows).
FillLastRow(yc) ==
    SetRow(yc, yc.nr,
           FillNaN(RowOf(yc, yc.nr), RowOf(yc, yc.nr - 1), RowOf(yc, yc.nr - 2)))

FillEdgeRows(yc) ==
    IF yc.nr > 2
    THEN FillLastRow(SetRow(yc, 1, FillNaN(RowOf(yc, 1), RowOf(yc, 2), RowOf(yc, 3))))
    ELSE yc

\* The midpoints alone, no row added.
WithoutExtraRow(x) == x

\* np.vstack((x, x[-1])) if np.isnan(x[0]).any() else np.vstack((x[0], x))
WithExtraRow(x) ==
    IF AnyNaN(Row(x, 1)) THEN VStack(x, RowOf(x, x.nr)) ELSE VStack(RowOf(x, 1), x)

\* np.hstack([y, y[:,[-1]]]) if np.isnan(y[:,[0]]).any() else
\* np.hstack([y[:,[0]], y])
WithExtraColumn(y) ==
    IF AnyNaN(Column(y, 1)) THEN HStack(y, ColOf(y, y.nc)) ELSE HStack(ColOf(y, 1), y)

\* The x corners for xc (edge columns filled) with more than one column.
CornersX(xc) ==
    WithExtraRow(MidColumns(
        HStack(HStack(Extrapolated(ColOf(xc, 1), ColOf(xc, 2)), xc),
               Extrapolated(ColOf(xc, xc.nc), ColOf(xc, xc.nc - 1)))))

\* The y corners for yc (edge rows filled) with more than one row.
CornersY(yc) ==
    WithExtraColumn(MidRows(
        VStack(VStack(Extrapolated(RowOf(yc, 1), RowOf(yc, 2)), yc),
               Extrapolated(RowOf(yc, yc.nr), RowOf(yc, yc.nr - 1)))))

\* x = np.hstack((xc - 1, xc[:,[0]] + 1)); x = np.vstack((x, x[0]))
WithFirstRowAgain(x) == VStack(x, RowOf(x, 1))

SingleColumnX(xc) ==
    WithFirstRowAgain(HStack(MatAddScalar(xc, R(-1)), MatAddScalar(ColOf(xc, 1), R(1))))

\* y = np.vstack([yc - 1, yc[0] + 1]); y = np.hstack([y, y[:,[0]]])
WithFirstColumnAgain(y) == HStack(y, ColOf(y, 1))

SingleRowY(yc) ==
    WithFirstColumnAgain(VStack(MatAddScalar(yc, R(-1)), MatAddScalar(RowOf(yc, 1), R(1))))

QuadsX(xc) == IF xc.nc > 1 THEN CornersX(FillEdgeColumns(xc)) ELSE SingleColumnX(xc)

QuadsY(yc) == IF yc.nr > 1 THEN CornersY(FillEdgeRows(yc)) ELSE SingleRowY(yc)

\* Data2D.get_quadrilaterals(self.x, self.y), as get_pcolor calls it.  On an
\* array without rows or without columns an index is out of bounds:
\* IndexError.  The arrays passed are self.x and self.y themselves, so the
\* filling of the edges is kept by the object.
get_quadrilaterals(d) ==
    IF IsEmpty(d.x) \/ IsEmpty(d.y)
    THEN Ret("raise", d, "IndexError")
    ELSE Ret("ok",
             [d EXCEPT !.x = IF d.x.nc > 1 THEN FillEdgeColumns(d.x) ELSE d.x,
                       !.y = IF d.y.nr > 1 THEN FillEdgeRows(d.y) ELSE d.y],
             <<QuadsX(d.x), QuadsY(d.y)>>)

\* Completing the triple of get_pcolor with Z.
WithZ(r) == IF r.out = "raise" THEN r ELSE Ret("ok", r.d, Append(r.res, r.d.z))

\* Data2D.get_pcolor: the corner matrices and Z (NaN cells are the masked
\* ones).
get_pcolor(d) == WithZ(get_quadrilaterals(d))

(***************************************************************************)
(* The state machine.  dat is the loaded DatFile, d2 the Data2D built from *)
(* it (None before get_data), pre the Data2D as it was when the last       *)
(* operation was called, last that operation: its name, its arguments, how *)
(* it ended ("ok", "None" for a None return value, "raise" for an          *)
(* exception) and what it returned; nops counts the operations applied to  *)
(* the Data2D.                                                             *)
(***************************************************************************)
Call(op, args, out, res) == [op |-> op, args |-> args, out |-> out, res |-> res]

InitWith(files) ==
    /\ dat \in { DatFile(f) : f \in files }
    /\ d2 = None
    /\ pre = None
    /\ last = Call("load", << >>, "ok", << >>)
    /\ nops = 0

\* data = dat_file.get_data(x_name, y_name, z_name)
GetData(x_name, y_name, z_name) ==
    /\ last.op = "load"
    /\ LET r == get_data(dat, x_name, y_name, z_name)
       IN  /\ d2' = IF r.ret = "Data2D" THEN r.val ELSE None
           /\ last' = Call("get_data", <<x_name, y_name, z_name>>, r.ret, r.log)
    /\ pre' = d2
    /\ UNCHANGED <<dat, nops>>

\* The parameter selections tried on a file.
XNames == {"", "a", "b", "v"}

YNames == {"", "a", "b"}

ZNames == {"", "v"}

InitPivot == InitWith(GenericFiles \cup ScanFiles)

NextPivot ==
    \E xn \in XNames, yn \in YNames, zn \in ZNames : GetData(xn, yn, zn)

SpecPivot == InitPivot /\ [][NextPivot]_vars

(***************************************************************************)
(* The operations on the Data2D.  An operation is applied while X, Y and Z *)
(* agree in shape (an operation that raised half-way can leave them        *)
(* disagreeing, and the model follows the object no further), and at most  *)
(* MaxOps operations are applied to one object.                            *)
(***************************************************************************)
CanApply == d2 # None /\ nops < MaxOps /\ SameShapeXYZ(d2)

Apply(op, args, r) ==
    /\ d2' = r.d
    /\ last' = Call(op, args, r.out, r.res)
    /\ pre' = d2
    /\ nops' = nops + 1
    /\ UNCHANGED dat

XDeriv(method) ==
    /\ CanApply
    /\ Apply("xderiv", <<method>>, Ret("ok", xderiv(d2, method), << >>))

YDeriv(method) ==
    /\ CanApply
    /\ Apply("yderiv", <<method>>, Ret("ok", yderiv(d2, method), << >>))

Crop(left, right, bottom, top) ==
    /\ CanApply
    /\ Apply("crop", <<left, right, bottom, top>>, crop(d2, left, right, bottom, top))

EvenOdd(even) ==
    /\ CanApply
    /\ Apply("even_odd", <<even>>, even_odd(d2, even))

Flip(x_flip, y_flip) ==
    /\ CanApply
    /\ Apply("flip", <<x_flip, y_flip>>, Ret("ok", flip_axes(d2, x_flip, y_flip), << >>))

OffsetAxes(x_offset, y_offset) ==
    /\ CanApply
    /\ Apply("offset_axes", <<x_offset, y_offset>>,
             Ret("ok", offset_axes(d2, x_offset, y_offset), << >>))

ScaleAxes(x_scale, y_scale) ==
    /\ CanApply
    /\ Apply("scale_axes", <<x_scale, y_scale>>,
             Ret("ok", scale_axes(d2, x_scale, y_scale), << >>))

Interpolate(points) ==
    /\ CanApply
    /\ Apply("interpolate", points, interpolate(d2, points))

InterpGrid(width, height) ==
    /\ CanApply
    /\ Apply("interp_grid", <<width, height>>, interp_grid(d2, width, height))

\* The arguments tried.
DerivMethods == {"midpoint", "2nd order central diff"}

CropArgs == { <<0, -1, 0, -1>>, <<1, -1, 0, -1>>, <<1, 0, 0, -1>> }

\* One point in the middle of a unit cell, one far outside every scan.
QueryPoints == { << <<1, 2>>, <<1, 2>> >>, << R(5), R(5) >> }

GridSizes == { <<2, 1>>, <<2, 2>> }

Init == InitWith(ScanFiles)

Next ==
    \/ GetData("a", "b", "v")
    \/ \E m \in DerivMethods : XDeriv(m)
    \/ \E m \in DerivMethods : YDeriv(m)
    \/ \E c \in CropArgs : Crop(c[1], c[2], c[3], c[4])
    \/ \E e \in BOOLEAN : EvenOdd(e)
    \/ \E f \in {<<TRUE, FALSE>>, <<FALSE, TRUE>>} : Flip(f[1], f[2])
    \/ OffsetAxes(R(1), R(0))
    \/ ScaleAxes(R(2), R(1))
    \/ \E q \in QueryPoints : Interpolate(<<q>>)
    \/ \E g \in GridSizes : InterpGrid(g[1], g[2])

Spec == Init /\ [][Next]_vars

\* Crop with every combination of bounds around the matrix, on the grid as
\* read and on the grid after one derivative.
CropBounds == (-1..MaxCrop) \X ((0 - MaxCrop - 1)..MaxCrop)

NextCrop ==
    \/ GetData("a", "b", "v")
    \/ nops = 0 /\ XDeriv("midpoint")
    \/ \E h \in CropBounds, v \in CropBounds :
          last.op # "crop" /\ Crop(h[1], h[2], v[1], v[2])

\* The complete 3 x 3 scan with the values 1 .. 9.
SquareScan == [cols |-> Header(3, 3, 1), rows |-> ScanRows(3, 3, 9, 1)]

InitCrop == InitWith(ScanFiles \cup {SquareScan})

SpecCrop == InitCrop /\ [][NextCrop]_vars

\* x, y, z = data.get_pcolor()
GetPcolor ==
    /\ CanApply
    /\ Apply("get_pcolor", << >>, get_pcolor(d2))

\* The 3 x 3 scans stopped in their last line.
SquareScans ==
    { [cols |-> Header(3, 3, 1), rows |-> ScanRows(3, 3, n, 1)] : n \in 7..9 }

InitMesh == InitWith(ScanFiles \cup SquareScans)

\* The mesh of the grid as read, with either parameter along x, and of the
\* grid after one flip or one derivative.
NextMesh ==
    \/ GetData("a", "b", "v")
    \/ GetData("b", "a", "v")
    \/ \E f \in {<<TRUE, FALSE>>, <<FALSE, TRUE>>} : nops = 0 /\ Flip(f[1], f[2])
    \/ nops = 0 /\ XDeriv("midpoint")
    \/ last.op # "get_pcolor" /\ GetPcolor

SpecMesh == InitMesh /\ [][NextMesh]_vars

\* The transforms of Z.
Log(subtract, min) ==
    /\ CanApply
    /\ Apply("log", <<subtract, min>>, log(d2, subtract, min))

Offset(by) ==
    /\ CanApply
    /\ Apply("offset", <<by>>, Ret("ok", offset(d2, by), << >>))

Power(n) ==
    /\ CanApply
    /\ Apply("power", <<n>>, Ret("ok", power(d2, n), << >>))

ScaleData(factor) ==
    /\ CanApply
    /\ Apply("scale_data", <<factor>>, Ret("ok", scale_data(d2, factor), << >>))

SubLinecutAvg(type, position, size) ==
    /\ CanApply
    /\ Apply("sub_linecut_avg", <<type, position, size>>,
             sub_linecut_avg(d2, type, position, size))

SubPlane(x_slope, y_slope) ==
    /\ CanApply
    /\ Apply("sub_plane", <<x_slope, y_slope>>, sub_plane(d2, x_slope, y_slope))

\* The arguments tried.
Offsets == { R(-1), R(2) }

Exponents == { 0, 2 }

Factors == { R(0), R(2) }

LinecutTypes == { "horizontal", "vertical" }

WindowSizes == { 1, 2 }

Slopes == { <<R(1), R(0)>>, <<R(1), R(2)>> }

\* Up to two transforms of Z on the grid as read, or on the grid moved one
\* unit along x.
NextValues ==
    \/ GetData("a", "b", "v")
    \/ nops = 0 /\ OffsetAxes(R(1), R(0))
    \/ \E s \in BOOLEAN : nops <= 1 /\ Log(s, R(1))
    \/ \E o \in Offsets : nops <= 1 /\ Offset(o)
    \/ \E n \in Exponents : nops <= 1 /\ Power(n)
    \/ \E f \in Factors : nops <= 1 /\ ScaleData(f)
    \/ \E t \in LinecutTypes, s \in WindowSizes : nops <= 1 /\ SubLinecutAvg(t, R(0), s)
    \/ \E s \in Slopes : nops <= 1 /\ SubPlane(s[1], s[2])

SpecValues == InitMesh /\ [][NextValues]_vars

\* Data2D(x, y, z, x_setpoints, y_setpoints, row_numbers, ..., equidistant,
\* varying) called with the arrays and names of the grid read and with flags
\* of the caller's choice.
Construct(equidistant, varying) ==
    /\ CanApply
    /\ ~IsEmpty(d2.x)
    /\ Apply("Data2D", <<equidistant, varying>>,
             Ret("ok",
                 Data2D(d2.x, d2.y, d2.z, d2.x_setpoints, d2.y_setpoints, d2.row_numbers,
                        <<d2.x_name, d2.y_name, d2.z_name,
                          d2.x_setpoints_name, d2.y_setpoints_name>>,
                        equidistant, varying),
                 << >>))

Flags == BOOLEAN \X BOOLEAN

NextConstruct ==
    \/ GetData("a", "b", "v")
    \/ GetData("b", "a", "v")
    \/ \E v \in Flags : nops = 0 /\ Construct(<<FALSE, FALSE>>, v)

SpecConstruct == InitMesh /\ [][NextConstruct]_vars

AutoFlip ==
    /\ CanApply
    /\ Apply("autoflip", << >>, autoflip(d2))

FlipArgs == { <<TRUE, FALSE>>, <<FALSE, TRUE>>, <<TRUE, TRUE>> }

\* autoflip on the grid as read and on the grid flipped or differentiated
\* once, with X read from the swept column or from the measured one.
NextFlip ==
    \/ GetData("a", "b", "v")
    \/ GetData("v", "b", "v")
    \/ \E f \in FlipArgs : nops = 0 /\ Flip(f[1], f[2])
    \/ nops = 0 /\ XDeriv("midpoint")
    \/ last.op # "autoflip" /\ AutoFlip

SpecFlip == InitMesh /\ [][NextFlip]_vars

DDeriv(dir, method) ==
    /\ CanApply
    /\ Apply("dderiv", <<dir, method>>, dderiv(d2, dir, method))

GradMag(method) ==
    /\ CanApply
    /\ Apply("gradmag", <<method>>, gradmag(d2, method))

\* cos and sin of the angles 0 and atan(4/3).
Directions == { <<R(1), R(0)>>, <<<<3, 5>>, <<4, 5>>>> }

\* The left column, the left two columns.
ColumnCrops == { <<0, 1>>, <<0, 2>> }

\* Up to two gradients on the grid as read, with X read from the swept
\* column or from the measured one, or on some of its columns.
NextGrad ==
    \/ GetData("a", "b", "v")
    \/ GetData("v", "b", "v")
    \/ \E c \in ColumnCrops : nops = 0 /\ Crop(c[1], c[2], 0, -1)
    \/ \E dir \in Directions, m \in DerivMethods : nops <= 1 /\ DDeriv(dir, m)
    \/ \E m \in DerivMethods : nops <= 1 /\ GradMag(m)

SpecGrad == InitMesh /\ [][NextGrad]_vars

\* data.save('x.dat'); DatFile('x.dat').get_data(...) with the names of data.
SaveAndRead ==
    /\ CanApply
    /\ d2.x_setpoints.nr > 0
    /\ d2.y_setpoints.nr > 0
    /\ Apply("save", << >>, ReadBack(d2, save(d2)))

\* The scans that were not stopped: every cell holds a record.
CompleteScans == { f \in ScanFiles \cup SquareScans : Len(f.rows) = f.cols[1].size * f.cols[2].size }

InitSave == InitWith(CompleteScans)

\* Saving the grid as read, with X read from the swept column or from the
\* measured one, and the grid after one transform.
NextSave ==
    \/ GetData("a", "b", "v")
    \/ GetData("v", "b", "v")
    \/ nops = 0 /\ OffsetAxes(R(1), R(0))
    \/ nops = 0 /\ Offset(R(2))
    \/ nops = 0 /\ Crop(0, 1, 0, -1)
    \/ nops = 0 /\ Flip(TRUE, FALSE)
    \/ \E m \in DerivMethods : nops = 0 /\ XDeriv(m)
    \/ last.op # "save" /\ SaveAndRead

SpecSave == InitSave /\ [][NextSave]_vars

(***************************************************************************)
(* PROPERTIES                                                              *)
(***************************************************************************)
Built == last.op = "get_data" /\ last.out = "Data2D"

Records == 1..Len(dat.data)

Cells(m) == (1..m.nr) \X (1..m.nc)

\* The values record k contributes, as get_data reads them with the
\* parameters of the last call.
XOf(k) == get_column(dat, last.args[1])[k]

YOf(k) == YData(dat, last.args[2])[k]

ZOf(k) == get_column(dat, last.args[3])[k]

\* The setpoints of record k as the table holds them: its values in the first
\* and in the second swept column (0 for a table with one swept column).
TableSetX(k) == dat.data[k][IndexOf(dat.ids, dat.sizes[1])]

TableSetY(k) ==
    IF Len(dat.sizes) >= 2 THEN dat.data[k][IndexOf(dat.ids, dat.sizes[2])]
    ELSE R(0)

TablePair(k) == <<TableSetX(k), TableSetY(k)>>

\* The setpoints of record k as get_data reads them: the second one is 0
\* unless a y parameter is in effect.
ReadPair(k) == <<XSetpoints(dat)[k], YSetpoints(dat, last.args[2])[k]>>

\* The 1-based rank of v among the distinct values of S.
Rank(S, v) == Cardinality({ w \in S : RLess(w, v) }) + 1

TableRanks(k) ==
    << Rank({ TableSetY(l) : l \in Records }, TableSetY(k)),
       Rank({ TableSetX(l) : l \in Records }, TableSetX(k)) >>

ReadRanks(k) ==
    << Rank({ ReadPair(l)[2] : l \in Records }, ReadPair(k)[2]),
       Rank({ ReadPair(l)[1] : l \in Records }, ReadPair(k)[1]) >>

\* Cell c of the grid exists and holds the z value and the row index of
\* record k.
CellHoldsRecord(c, k) ==
    /\ c \in Cells(d2.z)
    /\ d2.z.a[c[1]][c[2]] = ZOf(k)
    /\ d2.row_numbers.a[c[1]][c[2]] = R(k - 1)

\* Cell c holds the x, y, z and row number of record k.
CellHoldsAll(c, k) ==
    /\ CellHoldsRecord(c, k)
    /\ d2.x.a[c[1]][c[2]] = XOf(k)
    /\ d2.y.a[c[1]][c[2]] = YOf(k)

Swap(t, c) == IF t THEN <<c[2], c[1]>> ELSE c

\* C5 as stated: with pairwise distinct setpoint pairs in the table, the cell
\* addressed by the ranks of a record's setpoints (rows by y and columns by
\* x, or the reverse for all records) holds the record's z and row index,
\* and every cell no record addresses is NaN.
C5_PivotFidelityOfTablePairs ==
    (Built /\ \A k, l \in Records : k # l => TablePair(k) # TablePair(l))
    => \E t \in BOOLEAN :
         /\ \A k \in Records : CellHoldsRecord(Swap(t, TableRanks(k)), k)
         /\ \A c \in Cells(d2.z) :
              (\A k \in Records : Swap(t, TableRanks(k)) # c)
              => IsNaN(d2.z.a[c[1]][c[2]])

\* C5: pivot fidelity.  When the setpoint pairs as get_data reads them (the
\* y setpoint is 0 when no y parameter is in effect) are pairwise distinct,
\* every record's z and row index are in the cell (y rank, x rank), or in
\* (x rank, y rank) for all records when the constructor transposed the
\* grid, and every cell no record addresses is NaN in Z and in RowNumbers.
C5_PivotFidelity ==
    (Built /\ \A k, l \in Records : k # l => ReadPair(k) # ReadPair(l))
    => \E t \in BOOLEAN :
         /\ \A k \in Records : CellHoldsRecord(Swap(t, ReadRanks(k)), k)
         /\ \A c \in Cells(d2.z) :
              (\A k \in Records : Swap(t, ReadRanks(k)) # c)
              => /\ IsNaN(d2.z.a[c[1]][c[2]])
                 /\ IsNaN(d2.row_numbers.a[c[1]][c[2]])

\* A transposed 2 x 2 grid of three records with distinct pairs: one cell is
\* left NaN.
C5_Witness ==
    /\ Built
    /\ \A k, l \in Records : k # l => ReadPair(k) # ReadPair(l)
    /\ Len(dat.data) = 3
    /\ Shape(d2.z) = <<2, 2>>
    /\ \A k \in Records : CellHoldsRecord(<<ReadRanks(k)[2], ReadRanks(k)[1]>>, k)
    /\ \E k \in Records : ReadRanks(k)[1] # ReadRanks(k)[2]

\* Record k is the last of several records with the same pair.
LastOfShared(Pair(_), k) ==
    /\ \E l \in Records : l # k /\ Pair(l) = Pair(k)
    /\ \A l \in Records : Pair(l) = Pair(k) => l <= k

\* C6 as stated: when records share a setpoint pair of the table, some cell
\* of the grid holds the x, y, z and row number of the last of them.
C6_LastOfTablePairWins ==
    Built =>
      \A k \in Records :
        LastOfShared(TablePair, k) => \E c \in Cells(d2.z) : CellHoldsAll(c, k)

\* C6 amended: when records share a setpoint pair as get_data reads it (the y
\* setpoint is 0 when no y parameter is in effect), exactly one cell carries
\* that pair in SetpointX / SetpointY, and it holds the x, y, z and row number
\* of the record that comes last in the file.
C6_LastRecordWins ==
    Built =>
      \A k \in Records :
        LastOfShared(ReadPair, k) =>
          /\ Cardinality({ c \in Cells(d2.z) :
                 <<d2.x_setpoints.a[c[1]][c[2]], d2.y_setpoints.a[c[1]][c[2]]>>
                     = ReadPair(k) }) = 1
          /\ \A c \in Cells(d2.z) :
                 <<d2.x_setpoints.a[c[1]][c[2]], d2.y_setpoints.a[c[1]][c[2]]>>
                     = ReadPair(k) => CellHoldsAll(c, k)

\* Two records with the same pair and different z, the first one overwritten.
C6_Witness ==
    /\ Built
    /\ \E k, l \in Records :
         /\ l < k
         /\ ReadPair(l) = ReadPair(k)
         /\ ZOf(l) # ZOf(k)
         /\ LastOfShared(ReadPair, k)
         /\ \E c \in Cells(d2.z) : CellHoldsAll(c, k)

\* The spread (max - min over the non-NaN entries) of a set of numbers.
Spread(S) ==
    LET F == { v \in S : ~IsNaN(v) }
    IN  IF F = {} THEN NaN
        ELSE RSub(CHOOSE v \in F : \A w \in F : RLeq(w, v),
                  CHOOSE v \in F : \A w \in F : RLeq(v, w))

\* The average over the columns of the spread of X inside each column, and
\* the average over the rows of the spread of X inside each row.
AvgSpreadInColumns(x) ==
    Average([j \in 1..x.nc |-> Spread({ x.a[i][j] : i \in 1..x.nr })])

AvgSpreadInRows(x) ==
    Average([i \in 1..x.nr |-> Spread({ x.a[i][j] : j \in 1..x.nc })])

\* Every cell holds, in all six matrices, the values of one and the same
\* record (or NaN in all six): the matrices were transposed together.
SixMatricesAgree ==
    /\ \A m \in {d2.x, d2.y, d2.x_setpoints, d2.y_setpoints, d2.row_numbers} :
           Shape(m) = Shape(d2.z)
    /\ \A c \in Cells(d2.z) :
         LET rn == d2.row_numbers.a[c[1]][c[2]]
         IN  IF IsNaN(rn)
             THEN \A m \in {d2.x, d2.y, d2.z, d2.x_setpoints, d2.y_setpoints} :
                      IsNaN(m.a[c[1]][c[2]])
             ELSE /\ CellHoldsAll(c, rn[1] + 1)
                  /\ <<d2.x_setpoints.a[c[1]][c[2]], d2.y_setpoints.a[c[1]][c[2]]>>
                         = ReadPair(rn[1] + 1)

\* C7 as stated: after a pivot the average per-column range of X is at least
\* the average per-row range of X.
C7_ColumnRangeAtLeastRowRange ==
    Built => RLeq(AvgSpreadInRows(d2.x), AvgSpreadInColumns(d2.x))

\* C7 amended: after a pivot the average range of X along a row is at least
\* the average range of X along a column (X varies most along the rows), and
\* the six matrices are transposed together.
C7_Orientation ==
    Built => /\ RLeq(AvgSpreadInColumns(d2.x), AvgSpreadInRows(d2.x))
             /\ SixMatricesAgree

\* The pivot of x_setpoints / y_setpoints came out with X varying down the
\* columns and was transposed: SetpointX now varies down the columns.
C7_Witness ==
    /\ Built
    /\ d2.x.nr > 1
    /\ d2.x.nc > 1
    /\ RLess(AvgSpreadInColumns(d2.x), AvgSpreadInRows(d2.x))
    /\ RLess(R(0), AvgSpreadInColumns(d2.x_setpoints))
    /\ AvgSpreadInRows(d2.x_setpoints) = R(0)

\* The file declares no column with a size above 1.
NoSweptColumn == \A i \in 1..Len(dat.shape) : dat.shape[i] <= 1

\* C9 as stated: get_data on a table without a swept column raises.
C9_NoSweptColumnRaises ==
    (last.op = "get_data" /\ NoSweptColumn /\ last.args[1] # "")
    => last.out = "raise"

\* C9 amended: get_data on a table without a swept column logs an error and
\* returns None: no exception is raised and no grid is built.
C9_NoSweptColumnReturnsNone ==
    (last.op = "get_data" /\ NoSweptColumn /\ last.args[1] # "")
    => /\ last.out = "None"
       /\ d2 = None
       /\ last.res[Len(last.res)] = "error: no setpoint columns"

C9_Witness ==
    /\ last.op = "get_data"
    /\ NoSweptColumn
    /\ last.args = <<"a", "b", "v">>
    /\ last.out = "None"

\* C10 as stated: get_data with the x parameter unset raises.
C10_UnsetXRaises ==
    (last.op = "get_data" /\ last.args[1] = "") => last.out = "raise"

\* C10 amended: get_data with the x parameter unset logs an error and returns
\* None, whatever the other arguments and the table: no exception is raised
\* and no grid is built.
C10_UnsetXReturnsNone ==
    (last.op = "get_data" /\ last.args[1] = "")
    => /\ last.out = "None"
       /\ d2 = None
       /\ last.res = <<"error: no x parameter">>

\* x unset on a table and with y, z parameters that would otherwise give a grid.
C10_Witness ==
    /\ last.op = "get_data"
    /\ last.args = <<"", "b", "v">>
    /\ Len(dat.sizes) = 2
    /\ last.out = "None"

(***************************************************************************)
(* The transforms                                                          *)
(***************************************************************************)
\* C1: after any sequence of transform calls on a Data2D produced by
\* get_data, the matrices X, Y, Z and RowNumbers all have the same shape.
C1_ShapesAgree ==
    d2 # None =>
        /\ Shape(d2.x) = Shape(d2.z)
        /\ Shape(d2.y) = Shape(d2.z)
        /\ Shape(d2.row_numbers) = Shape(d2.z)

\* C2: every call to interpolate uses a triangulation built from the grid's
\* current X, Y, Z: the triangulation the object holds when interpolate has
\* returned is the one its X, Y, Z give when triangulated now.
C2_InterpolateUsesCurrentTriangulation ==
    (last.op = "interpolate" /\ last.out = "ok") =>
        generate_triangulation(d2) = Ret("ok", d2, << >>)

\* C3: when interp_grid raises, X, Y and Z all still hold the values they
\* had before the call.
C3_FailedInterpGridLeavesGrid ==
    (last.op = "interp_grid" /\ last.out = "raise") =>
        /\ d2.x = pre.x
        /\ d2.y = pre.y
        /\ d2.z = pre.z

\* A negative right / top bound counts from the end of an axis of length n.
Resolved(n, bound) == IF bound < 0 THEN n + bound + 1 ELSE bound

\* The bounds of the last crop call, right and top resolved on the matrix
\* as it was when crop was called.
CropLeft == last.args[1]

CropRightResolved == Resolved(pre.z.nc, last.args[2])

CropBottom == last.args[3]

CropTopResolved == Resolved(pre.z.nr, last.args[4])

RightBeforeLeft == CropRightResolved < CropLeft

TopBeforeBottom == CropTopResolved < CropBottom

BoundOutOfRange ==
    \/ CropLeft \notin 0..pre.z.nc
    \/ CropRightResolved \notin 0..pre.z.nc
    \/ CropBottom \notin 0..pre.z.nr
    \/ CropTopResolved \notin 0..pre.z.nr

\* C4: crop with right < left, with top < bottom or with a bound outside the
\* matrix range (negative right / top resolved from the end) raises an
\* error and leaves X, Y, Z and RowNumbers unchanged.
C4_InvalidCropRaisesUnchanged ==
    (last.op = "crop" /\ (RightBeforeLeft \/ TopBeforeBottom \/ BoundOutOfRange)) =>
        /\ last.out = "raise"
        /\ d2.x = pre.x
        /\ d2.y = pre.y
        /\ d2.z = pre.z
        /\ d2.row_numbers = pre.row_numbers

\* A crop of a non-empty grid that was refused for right < left alone, and
\* one that was refused for a bound past the end of the matrix.
C4_Witness ==
    /\ last.op = "crop"
    /\ last.out = "raise"
    /\ ~IsEmpty(pre.z)
    /\ RightBeforeLeft
    /\ ~TopBeforeBottom
    /\ ~BoundOutOfRange
    /\ d2.z = pre.z

\* The query point k of the last interpolate call, in the normalized
\* coordinates of the triangulation.
QueryNormalized(k) ==
    << Normalize(last.args[k][1], get_limits(d2).xmin, get_limits(d2).xmax),
       Normalize(last.args[k][2], get_limits(d2).ymin, get_limits(d2).ymax) >>

\* p lies in the convex hull of the points: in a triangle on three of them.
InHull(pts, p) ==
    \E i, j, k \in 1..Len(pts) : InTriangle(p, pts[i], pts[j], pts[k])

\* C8: interpolate returns NaN for every query point outside the convex
\* hull of the triangulated data points.
C8_OutsideHullIsNaN ==
    (last.op = "interpolate" /\ last.out = "ok") =>
        \A k \in 1..Len(last.args) :
            ~InHull(d2.tri.points, QueryNormalized(k)) => IsNaN(last.res[k])

(***************************************************************************)
(* The warnings of get_data                                                *)
(***************************************************************************)
\* The table as it would be if only its first two swept columns were swept.
FirstTwoSwept(df) == [df EXCEPT !.sizes = SubSeq(df.sizes, 1, 2), !.ndim = 2]

\* The last get_data call ended as the call g: the same kind of result, and
\* the same grid when there is one.
SameResultAs(g) == last.out = g.ret /\ (g.ret = "Data2D" => d2 = g.val)

\* C11: the two warning conditions never change the result of get_data: with
\* more than two swept columns it returns what it returns when only the first
\* two are swept, and with a y parameter on a one-dimensional dataset what it
\* returns with the y parameter unset; the warning is logged and, where the
\* call without the warning condition gives a Data2D, so does this one.
C11_WarningsKeepResult ==
    last.op = "get_data" =>
        /\ Len(dat.sizes) > 2 =>
             SameResultAs(get_data(FirstTwoSwept(dat), last.args[1], last.args[2],
                                   last.args[3]))
        /\ (dat.ndim < 2 /\ last.args[2] # "") =>
             SameResultAs(get_data(dat, last.args[1], "", last.args[3]))
        /\ (Len(dat.sizes) > 2 /\ last.args[1] # "") =>
             last.res = <<"warning: using the first two">>
        /\ (dat.ndim < 2 /\ last.args[2] # "" /\ last.args[1] # "") =>
             last.res[1] = "warning: y ignored, 1D"

\* Three swept columns, the warning logged and a grid of the first two
\* returned.
C11_Witness ==
    /\ last.op = "get_data"
    /\ Len(dat.sizes) = 3
    /\ last.res = <<"warning: using the first two">>
    /\ last.out = "Data2D"
    /\ d2.x_setpoints_name = "a"
    /\ d2.y_setpoints_name = "b"
    /\ Shape(d2.z) = <<2, 2>>

(***************************************************************************)
(* A single swept column                                                   *)
(***************************************************************************)
\* The values of the only swept column of the table.
SweptValues == { dat.data[k][IndexOf(dat.ids, dat.sizes[1])] : k \in Records }

\* C12: get_data on a table with exactly one swept column gives a single
\* row with one column per unique value of the swept column, SetpointX
\* holding these values in ascending order and SetpointY identically zero.
C12_SingleSweptColumnSingleRow ==
    (Built /\ Len(dat.sizes) = 1) =>
        /\ Shape(d2.z) = <<1, Cardinality(SweptValues)>>
        /\ \A m \in {d2.x, d2.y, d2.x_setpoints, d2.y_setpoints, d2.row_numbers} :
               Shape(m) = Shape(d2.z)
        /\ \A j \in 1..d2.z.nc :
               /\ d2.y_setpoints.a[1][j] = R(0)
               /\ d2.x_setpoints.a[1][j] \in SweptValues
               /\ Rank(SweptValues, d2.x_setpoints.a[1][j]) = j

\* Three records of a scan of one swept column with two values: a grid of
\* one row and two columns.
C12_Witness ==
    /\ Built
    /\ Len(dat.sizes) = 1
    /\ Len(dat.data) = 3
    /\ Shape(d2.z) = <<1, 2>>
    /\ d2.y_setpoints.a[1][2] = R(0)

(***************************************************************************)
(* Derivatives                                                             *)
(***************************************************************************)
\* X, Y and Z of the Data2D all have the shape <<nr, nc>>.
XYZShape(nr, nc) ==
    /\ Shape(d2.x) = <<nr, nc>>
    /\ Shape(d2.y) = <<nr, nc>>
    /\ Shape(d2.z) = <<nr, nc>>

IsDeriv(op, method) == last.op = op /\ last.args = <<method>>

\* C13 as stated: on an R x C grid xderiv(midpoint) leaves X, Y, Z of shape
\* R x (C - 1), yderiv(midpoint) of shape (R - 1) x C, and the 2nd order
\* central differences of shape R x (C - 2) and (R - 2) x C.
C13_DerivativeShapes ==
    /\ IsDeriv("xderiv", "midpoint") => XYZShape(pre.z.nr, pre.z.nc - 1)
    /\ IsDeriv("yderiv", "midpoint") => XYZShape(pre.z.nr - 1, pre.z.nc)
    /\ IsDeriv("xderiv", "2nd order central diff") => XYZShape(pre.z.nr, pre.z.nc - 2)
    /\ IsDeriv("yderiv", "2nd order central diff") => XYZShape(pre.z.nr - 2, pre.z.nc)

\* C13: derivative shape law.  On an R x C grid xderiv(midpoint) leaves X, Y
\* and Z of shape R x (C - 1) and yderiv(midpoint) of shape (R - 1) x C, the
\* 2nd order central differences of shape R x (C - 2) and (R - 2) x C, where
\* a dimension that would fall below 0 is 0: no derivative raises on a grid
\* too small for it.
C13_DerivativeShapesFloored ==
    /\ IsDeriv("xderiv", "midpoint")
           => XYZShape(pre.z.nr, MaxInt(pre.z.nc - 1, 0))
    /\ IsDeriv("yderiv", "midpoint")
           => XYZShape(MaxInt(pre.z.nr - 1, 0), pre.z.nc)
    /\ IsDeriv("xderiv", "2nd order central diff")
           => XYZShape(pre.z.nr, MaxInt(pre.z.nc - 2, 0))
    /\ IsDeriv("yderiv", "2nd order central diff")
           => XYZShape(MaxInt(pre.z.nr - 2, 0), pre.z.nc)
    /\ last.op \in {"xderiv", "yderiv"} => last.out = "ok"

\* A midpoint x derivative of a 2 x 3 grid: 2 x 2.
C13_Witness ==
    /\ IsDeriv("xderiv", "midpoint")
    /\ Shape(pre.z) = <<2, 3>>
    /\ XYZShape(2, 2)

(***************************************************************************)
(* The crop law                                                            *)
(***************************************************************************)
\* The bounds of the last crop are those of a non-empty rectangle inside Z.
CropBoundsValid ==
    /\ last.op = "crop"
    /\ CropLeft < CropRightResolved
    /\ CropBottom < CropTopResolved
    /\ ~BoundOutOfRange

\* m is the sub-rectangle rows bottom .. top - 1, columns left .. right - 1
\* of what it was before the crop.
IsSubRectangle(m, before) ==
    /\ Shape(m) = <<CropTopResolved - CropBottom, CropRightResolved - CropLeft>>
    /\ \A c \in Cells(m) :
          /\ CropBottom + c[1] <= before.nr
          /\ CropLeft + c[2] <= before.nc
          /\ m.a[c[1]][c[2]] = before.a[CropBottom + c[1]][CropLeft + c[2]]

CroppedToSubRectangle ==
    /\ last.out = "ok"
    /\ IsSubRectangle(d2.x, pre.x)
    /\ IsSubRectangle(d2.y, pre.y)
    /\ IsSubRectangle(d2.z, pre.z)
    /\ IsSubRectangle(d2.row_numbers, pre.row_numbers)

\* z = [[1,2,3],[4,5,6],[7,8,9]]
ExampleZ ==
    [nr |-> 3, nc |-> 3,
     a |-> << <<R(1), R(2), R(3)>>, <<R(4), R(5), R(6)>>, <<R(7), R(8), R(9)>> >>]

\* z = [[1,2],[4,5]]
ExampleCropped ==
    [nr |-> 2, nc |-> 2, a |-> << <<R(1), R(2)>>, <<R(4), R(5)>> >>]

IsExampleCrop == last.op = "crop" /\ last.args = <<0, 2, 0, 2>>

\* C14 as stated: a crop with valid bounds leaves the sub-rectangle, and
\* crop(0, 2, 0, 2) on any grid yields exactly a 2 x 2 result.
C14_CropOnAnyGrid ==
    /\ CropBoundsValid => CroppedToSubRectangle
    /\ IsExampleCrop => Shape(d2.z) = <<2, 2>>
    /\ (IsExampleCrop /\ pre.z = ExampleZ) => d2.z = ExampleCropped

\* C14: crop law.  A crop with valid bounds replaces X, Y, Z and RowNumbers
\* by their sub-rectangle rows bottom .. top - 1, columns left .. right - 1;
\* crop(0, 2, 0, 2) on a grid of at least 2 rows and 2 columns yields
\* exactly a 2 x 2 result (on a smaller grid it raises and the grid keeps
\* its shape), and on z = [[1,2,3],[4,5,6],[7,8,9]] yields [[1,2],[4,5]].
C14_CropLaw ==
    /\ CropBoundsValid => CroppedToSubRectangle
    /\ (IsExampleCrop /\ pre.z.nr >= 2 /\ pre.z.nc >= 2)
           => last.out = "ok" /\ Shape(d2.z) = <<2, 2>>
    /\ (IsExampleCrop /\ (pre.z.nr < 2 \/ pre.z.nc < 2))
           => last.out = "raise" /\ Shape(d2.z) = Shape(pre.z)
    /\ (IsExampleCrop /\ pre.z = ExampleZ) => d2.z = ExampleCropped

\* The example of the law: crop(0, 2, 0, 2) of the 3 x 3 grid 1 .. 9.
C14_Witness ==
    /\ IsExampleCrop
    /\ pre.z = ExampleZ
    /\ last.out = "ok"
    /\ d2.z = ExampleCropped
    /\ Shape(d2.row_numbers) = <<2, 2>>

\* c = data.copy(): the call returns the copy c and leaves the grid alone.
CopyAs(c) == Apply("copy", << >>, Ret(c.out, d2, IF c.out = "ok" THEN c.d ELSE c.res))

Copy ==
    /\ CanApply
    /\ CopyAs(copy(d2))

\* copy of the grid as read, of the grid built again with varying flags, and
\* of each of them after up to two crops of columns or flips, with X read
\* from the swept column or from the measured one.
NextCopy ==
    \/ GetData("a", "b", "v")
    \/ GetData("v", "b", "v")
    \/ \E v \in Flags : nops = 0 /\ Construct(<<FALSE, FALSE>>, v)
    \/ \E c \in ColumnCrops : nops <= 1 /\ Crop(c[1], c[2], 0, -1)
    \/ \E f \in FlipArgs : nops <= 1 /\ Flip(f[1], f[2])
    \/ last.op # "copy" /\ Copy

SpecCopy == InitMesh /\ [][NextCopy]_vars

\* create_kernel alone, on widths from a thousandth of a cell to two cells
\* and cutoffs from 1 to 3000, for the kernels of at most MaxHalfWidth cells
\* to each side of the centre.  The lorentzian is left out at the cutoffs
\* above 3, where its sum needs integers beyond 32 bits.
MaxHalfWidth == 1

Widths == { <<1, 1000>>, <<1, 2>>, R(1), R(2) }

Cutoffs == { R(1), R(2), R(3), R(2000), R(3000) }

KernelArgs ==
    { t \in Widths \X Widths \X Cutoffs \X (Families \cup {"box"}) :
        /\ HalfWidth(t[1], t[3]) <= MaxHalfWidth
        /\ HalfWidth(t[2], t[3]) <= MaxHalfWidth
        /\ t[4] = "lorentzian" => RLeq(t[3], R(3)) }

InitKernel ==
    /\ dat = None
    /\ d2 = None
    /\ pre = None
    /\ last = Call("load", << >>, "ok", << >>)
    /\ nops = 0

\* The call of create_kernel with the arguments t that ended as r.
KernelCall(t, r) == Call("create_kernel", t, r.out, r.res)

\* kernel = create_kernel(x_dev, y_dev, cutoff, distr), called once: the
\* function keeps nothing between two calls.
CreateKernel(x_dev, y_dev, cutoff, distr) ==
    /\ nops = 0
    /\ last' = KernelCall(<<x_dev, y_dev, cutoff, distr>>,
                          create_kernel(x_dev, y_dev, cutoff, distr))
    /\ nops' = nops + 1
    /\ UNCHANGED <<dat, d2, pre>>

NextKernel == \E t \in KernelArgs : CreateKernel(t[1], t[2], t[3], t[4])

SpecKernel == InitKernel /\ [][NextKernel]_vars

(***************************************************************************)
(* C15.  Mesh shape law: get_pcolor on a grid of R rows and C columns      *)
(* (R, C >= 1) returns both corner matrices with R + 1 rows and C + 1      *)
(* columns.                                                                *)
(***************************************************************************)
MeshOf(nr, nc) ==
    /\ last.out = "ok"
    /\ Shape(last.res[1]) = <<nr + 1, nc + 1>>
    /\ Shape(last.res[2]) = <<nr + 1, nc + 1>>

C15_MeshShape ==
    (last.op = "get_pcolor" /\ ~IsEmpty(pre.z)) => MeshOf(pre.z.nr, pre.z.nc)

\* A 3 x 3 grid whose last row ends in NaN has got its 4 x 4 mesh.
C15_Witness ==
    /\ last.op = "get_pcolor"
    /\ Shape(pre.x) = <<3, 3>>
    /\ IsNaN(pre.x.a[3][3])
    /\ MeshOf(3, 3)

(***************************************************************************)
(* C17.  An axis with exactly one cell gets the corner coordinates         *)
(* value - 0.5 and value + 0.5 around the coordinate of that cell: a grid  *)
(* of one column has the x corners x - 1/2 and x + 1/2 in every row of     *)
(* cells, a grid of one row the y corners y - 1/2 and y + 1/2 in every     *)
(* column of cells.                                                        *)
(***************************************************************************)
Half == <<1, 2>>

WindowAround(value, low, high) ==
    IsFinite(value) => low = RSub(value, Half) /\ high = RAdd(value, Half)

C17_HalfUnitWindow ==
    (last.op = "get_pcolor" /\ last.out = "ok") =>
        /\ pre.x.nc = 1 =>
              \A i \in 1..pre.x.nr :
                  WindowAround(pre.x.a[i][1], last.res[1].a[i][1], last.res[1].a[i][2])
        /\ pre.y.nr = 1 =>
              \A j \in 1..pre.y.nc :
                  WindowAround(pre.y.a[1][j], last.res[2].a[1][j], last.res[2].a[2][j])

(***************************************************************************)
(* C16.  NaN propagation: log, power, offset and scale_data on a grid      *)
(* whose Z holds NaN cells raise no error and leave every NaN cell NaN (no *)
(* NaN cell becomes a number).                                             *)
(***************************************************************************)
ZTransforms == {"log", "power", "offset", "scale_data"}

HasNaN(m) == \E i \in 1..m.nr, j \in 1..m.nc : IsNaN(m.a[i][j])

NaNCellsStay ==
    /\ Shape(d2.z) = Shape(pre.z)
    /\ \A i \in 1..pre.z.nr, j \in 1..pre.z.nc : IsNaN(pre.z.a[i][j]) => IsNaN(d2.z.a[i][j])

EveryCellIs(m, v) == \A i \in 1..m.nr, j \in 1..m.nc : m.a[i][j] = v

Window(index, size) ==
    IF size % 2 = 0
    THEN (index - (size \div 2))..(index + (size \div 2) - 1)
    ELSE (index - ((size - 1) \div 2))..(index + ((size - 1) \div 2))

RECURSIVE SumOver(_, _)
SumOver(S, F) ==
    IF S = {} THEN R(0)
    ELSE LET k == CHOOSE k \in S : TRUE IN RAdd(F[k], SumOver(S \ {k}, F))

WindowAverage(S, F) == RDiv(SumOver(S, F), R(Cardinality(S)))

NearestRow == ArgMin(Distances(RowMeans(pre.y), last.args[2]))

NearestColumn == ArgMin(Distances(ColumnMeans(pre.x), last.args[2]))

RowsAveragedOut(S) ==
    S \subseteq 0..(pre.z.nr - 1) =>
        \A i \in 1..pre.z.nr, j \in 1..pre.z.nc :
            d2.z.a[i][j] =
                RSub(pre.z.a[i][j], WindowAverage(S, [k \in S |-> pre.z.a[k + 1][j]]))

ColumnsAveragedOut(S) ==
    S \subseteq 0..(pre.z.nc - 1) =>
        \A i \in 1..pre.z.nr, j \in 1..pre.z.nc :
            d2.z.a[i][j] =
                RSub(pre.z.a[i][j], WindowAverage(S, [k \in S |-> pre.z.a[i][k + 1]]))

C19_SubLinecutAvg ==
    (last.op = "sub_linecut_avg" /\ ~IsEmpty(pre.z)) =>
        /\ last.out = "ok"
        /\ last.args[1] = "horizontal" => RowsAveragedOut(Window(NearestRow, last.args[3]))
        /\ last.args[1] = "vertical" => ColumnsAveragedOut(Window(NearestColumn, last.args[3]))

(***************************************************************************)
(* C20.  sub_plane subtracts a plane centred on the middle of the grid: a  *)
(* cell whose x is (xmin + xmax)/2 and whose y is (ymin + ymax)/2 keeps    *)
(* its Z, whatever the slopes and wherever the grid lies.                  *)
(***************************************************************************)
MidOf(s) == RDiv(RAdd(NanMin(s), NanMax(s)), R(2))

C20_MidpointKeepsZ ==
    (last.op = "sub_plane" /\ last.out = "ok") =>
        \A i \in 1..pre.z.nr, j \in 1..pre.z.nc :
            (/\ REq(pre.x.a[i][j], MidOf(Ravel(pre.x)))
             /\ REq(pre.y.a[i][j], MidOf(Ravel(pre.y)))) =>
                d2.z.a[i][j] = pre.z.a[i][j]

(***************************************************************************)
(* C18.  A grid constructed with the varying flag of one axis only has the *)
(* coordinate matrix of that axis replaced by the evenly spaced axis and   *)
(* the coordinate matrix of the other axis as it was passed.               *)
(***************************************************************************)
AsPassed(m, passed) == m = passed \/ m = Transpose(passed)

C18_OnlyFlaggedAxisReplaced ==
    last.op = "Data2D" =>
        /\ last.args[2] = <<TRUE, FALSE>> => AsPassed(d2.y, pre.y)
        /\ last.args[2] = <<FALSE, TRUE>> => AsPassed(d2.x, pre.x)

(***************************************************************************)
(* C21.  After autoflip on a grid whose corner coordinates are not NaN,    *)
(* X[0,0] <= X[0,last] and Y[0,0] <= Y[last,0]; X, Y, Z and the row        *)
(* numbers have been reversed together along the same axes; and a second   *)
(* autoflip changes nothing.                                               *)
(***************************************************************************)
CornersNotNaN(m) ==
    /\ ~IsNaN(m.a[1][1])
    /\ ~IsNaN(m.a[1][m.nc])
    /\ ~IsNaN(m.a[m.nr][1])
    /\ ~IsNaN(m.a[m.nr][m.nc])

Canonical(d) ==
    /\ RLeq(d.x.a[1][1], d.x.a[1][d.x.nc])
    /\ RLeq(d.y.a[1][1], d.y.a[d.y.nr][1])

ReversedTogether == \E f \in BOOLEAN \X BOOLEAN : d2 = FlipBy(pre, f)

C21_AutoflipCanonical ==
    (/\ last.op = "autoflip"
     /\ last.out = "ok"
     /\ CornersNotNaN(pre.x)
     /\ CornersNotNaN(pre.y)) =>
        /\ Canonical(d2)
        /\ ReversedTogether
        /\ autoflip(d2) = Ret("ok", d2, << >>)

(***************************************************************************)
(* C22.  dderiv and gradmag combine the x and the y partial derivative on  *)
(* their common shape: on a grid of R rows and C columns X, Y and Z get    *)
(* the shape (R-1) x (C-1) with the midpoint method and (R-2) x (C-2)      *)
(* with the 2nd order method, and cell (i,j) of Z combines the x partial   *)
(* and the y partial taken at the same (i,j).                              *)
(***************************************************************************)
IsGradient == last.op \in {"dderiv", "gradmag"} /\ ~IsEmpty(pre.z)

GradMethod == last.args[Len(last.args)]

\* The partial derivatives of the grid before the call at cell (i,j) of the
\* result; o is 0 for the midpoint method and 1 for the 2nd order method.
XPartial(i, j, o) ==
    RDiv(RSub(pre.z.a[i + o][j + o + 1], pre.z.a[i + o][j]),
         RSub(pre.x.a[i + o][j + o + 1], pre.x.a[i + o][j]))

YPartial(i, j, o) ==
    RDiv(RSub(pre.z.a[i + o + 1][j + o], pre.z.a[i][j + o]),
         RSub(pre.y.a[i + o + 1][j + o], pre.y.a[i][j + o]))

Combination(xp, yp) ==
    IF last.op = "dderiv"
    THEN RAdd(RMul(xp, last.args[1][1]), RMul(yp, last.args[1][2]))
    ELSE Sqrt(RAdd(RMul(xp, xp), RMul(yp, yp)))

CellsCombine(o) ==
    \A i \in 1..d2.z.nr, j \in 1..d2.z.nc :
        d2.z.a[i][j] = Combination(XPartial(i, j, o), YPartial(i, j, o))

C22_GradientShapes ==
    IsGradient =>
        /\ last.out = "ok"
        /\ GradMethod = "midpoint" =>
              XYZShape(pre.z.nr - 1, pre.z.nc - 1) /\ CellsCombine(0)
        /\ GradMethod = "2nd order central diff" =>
              XYZShape(pre.z.nr - 2, pre.z.nc - 2) /\ CellsCombine(1)

(***************************************************************************)
(* C23.  Save round trip: a grid written with save to the .dat format and  *)
(* read back through DatFile and get_data gives a grid with equivalent X,  *)
(* Y and Z (the same shape, every cell the number the file holds for it).  *)
(***************************************************************************)
Equivalent(back, m) ==
    /\ Shape(back) = Shape(m)
    /\ \A i \in 1..m.nr, j \in 1..m.nc : back.a[i][j] = Formatted(m.a[i][j])

ReadBackAs(g) ==
    /\ g.ret = "Data2D"
    /\ Equivalent(g.val.x, pre.x)
    /\ Equivalent(g.val.y, pre.y)
    /\ Equivalent(g.val.z, pre.z)

C23_SaveRoundTrip ==
    last.op = "save" => last.out = "ok" /\ ReadBackAs(last.res)

(***************************************************************************)
(* C24.  The setpoint matrices keep the shape of X and Y after any         *)
(* sequence of transforms (crop, flip, even_odd, derivatives,              *)
(* resampling): every cell of X / Y has its setpoint entry.                *)
(***************************************************************************)
C24_SetpointsShapedAsXY ==
    (d2 # None /\ last.out \in {"ok", "Data2D"}) =>
        /\ Shape(d2.x_setpoints) = Shape(d2.x)
        /\ Shape(d2.y_setpoints) = Shape(d2.y)

(***************************************************************************)
(* C25.  Kernel normalization: for every distribution family in            *)
(* {gaussian, exponential, lorentzian, thermal} and every x_dev, y_dev,    *)
(* cutoff > 0, the entries of the kernel create_kernel returns sum to 1.   *)
(***************************************************************************)
KernelSum == SeqSum(Ravel(last.res), 1)

C25_KernelSumsToOne ==
    (last.op = "create_kernel" /\ last.args[4] \in Families) =>
        last.out = "ok" /\ KernelSum = R(1)

(***************************************************************************)
(* C26.  Building the render mesh is read-only on the grid: get_pcolor     *)
(* (through get_quadrilaterals) leaves the X, Y and Z matrices of the grid *)
(* exactly as they were before the call, also when the first or the last   *)
(* row or column of the coordinates contains NaN.                          *)
(***************************************************************************)
C26_MeshIsReadOnly ==
    (last.op = "get_pcolor" /\ last.out = "ok") =>
        /\ d2.x = pre.x
        /\ d2.y = pre.y
        /\ d2.z = pre.z

(***************************************************************************)
(* C27.  copy() of any reachable grid (after any sequence of transforms,   *)
(* with any equidistant and varying flags) returns a grid whose X, Y, Z    *)
(* and RowNumbers are elementwise equal to those of the original, with the *)
(* same shape and orientation: the copy is never transposed or re-gridded. *)
(* Stated for the grids that have cells.                                   *)
(***************************************************************************)
C27_CopyEqualsSource ==
    (last.op = "copy" /\ ~IsEmpty(pre.x)) =>
        /\ last.out = "ok"
        /\ last.res.x = pre.x
        /\ last.res.y = pre.y
        /\ last.res.z = pre.z
        /\ last.res.row_numbers = pre.row_numbers

====
